---- MODULE Spec2Model ----
(***************************************************************************)
(* Asset storage layer and asset loading/caching pipeline of               *)
(* numinia-hyperfy2: the client and server asset loaders, the two backend   *)
(* adapters (FileStorage, AwsS3Storage) behind the StorageManager, the      *)
(* upload endpoint and the throttled key-value document.                    *)
(*                                                                         *)
(* Thirteen specifications share the variables of this module:                  *)
(*   SpecLoader  ClientLoader / ServerLoader (promises, results, preload)   *)
(*   SpecStore   backend adapters, StorageManager facade, POST /api/upload  *)
(*   SpecKV      StorageManager key-value document and its throttle         *)
(*   SpecKVLive  the same under fair scheduling of timers and writes        *)
(*   SpecNames   the stored name POST /api/upload derives                   *)
(*   SpecOps     facade queries, deleteFile and the presigned-URL methods   *)
(*   SpecColl    initCollections(), the collection loader                   *)
(*   SpecBoot    StorageManager.initialize(), seeding, server startup       *)
(*   SpecShut    forceStorageDataPersist() and the SIGINT/SIGTERM handlers  *)
(*   SpecModel   ServerLoader.loadModel() and its built-in fallback         *)
(*   SpecUrl     the locators of uploadFile, getPublicUrl and getAssetsUrl  *)
(*   SpecUp      uploadCollection() and the collections namespace           *)
(*   SpecClean   the cleanup scripts clean-world and clean-world-s3         *)
(* Each one leaves the variables of the other components at their initial   *)
(* value.                                                                   *)
(***************************************************************************)
EXTENDS Integers, Sequences, FiniteSets, TLC

VARIABLES
  \* ---- loader (ClientLoader / ServerLoader) ----
  variant,       \* "client" | "server": which loader class this instance is
  focus,         \* the keys the environment asks for in this behaviour
  promises,      \* this.promises : key -> promise token (Absent when no entry)
  results,       \* this.results  : key -> handle (NoHandle when no entry)
  files,         \* ClientLoader this.files: the refs whose File is cached
  preloadItems,  \* this.preloadItems : sequence of keys
  preloader,     \* this.preloader : NoPreloader or [awaits : Seq(token)]
  pipes,         \* every promise ever created by load/insert, in creation order
  callers,       \* the load() calls issued from outside execPreload
  gen,           \* history: key -> number of times its cache entry was replaced
                 \* by insert() or dropped by destroy()
  batch,         \* history: tokens of the loads issued by the last execPreload
  executed,      \* history: execPreload() was called
  requests,      \* history: number of load(), preload() and insert() calls
  readyCount,    \* history: number of 'ready' events emitted (client)
  destroyed,     \* history: destroy() was called
  \* ---- storage backends (FileStorage / AwsS3Storage), upload requests ----
  backend,       \* "local" | "s3": the adapter StorageManager selected
  assets,        \* the assets namespace: name -> [data, mtime]
  reqs,          \* the upload requests, each with its position in the code
  wclock,        \* number of writes the backend performed (source of mtime)
  listing,       \* history: the answer of the last listFiles() call
  \* ---- key-value document of StorageManager and its throttle ----
  now,           \* Date.now(), in ticks
  storageLoaded, \* this.storageLoaded
  storageData,   \* this.storageData : key -> value (NoValue when not a property)
  throttle,      \* state of the throttled this.saveStorageData
  inflight,      \* the documents of the backend writes in progress
  persisted,     \* the document the backend holds (storage.json)
  sets,          \* history: number of setStorageValue() calls
  burst,         \* history: the calls and writes since the last leading edge
  \* ---- stored names derived by POST /api/upload ----
  named,         \* history: the uploads received, each with the name derived
  \* ---- StorageManager facade: queries, delete, presigned URLs ----
  ops,           \* history: the facade calls that returned, with their results
  \* ---- collections namespace and the collection loader ----
  cworld,        \* the ids of the collections the backend holds
  cl,            \* initCollections(): position, local variables, history
  faults,        \* history: number of backend requests that failed
  \* ---- startup: StorageManager.initialize() and the server ----
  env,           \* process.env: STORAGE_TYPE and whether S3_BUCKET_NAME is set
  mgr,           \* the StorageManager: this.storage, this.isS3, position
  startup,       \* position of the server's startup sequence
  calls,         \* history: the capabilities this process called before
                 \* initialize() settled
  seeded,        \* history: the built-in files this process's seeding processed
  boots          \* history: number of times the process was started

lvars == <<variant, focus, promises, results, files, preloadItems, preloader, pipes,
           callers, gen, batch, executed, requests, readyCount, destroyed>>

svars == <<backend, assets, reqs, wclock, listing>>

kvars == <<now, storageLoaded, storageData, throttle, inflight, persisted, sets, burst>>

nvars == <<named>>

\* The components added to the three above.
ovars == <<ops>>

cvars == <<cworld, cl, faults>>

bvars == <<env, mgr, startup, calls, seeded, boots>>

xvars == <<nvars, ovars, cvars, bvars>>

vars == <<lvars, svars, kvars, xvars>>

----------------------------------------------------------------------------
(* Bounds of the model *)

MaxRequests == 3   \* load(), preload() and insert() calls in one behaviour
MaxUploads == 2    \* upload requests in one behaviour
MaxSets == 4       \* setStorageValue() calls in one behaviour
MaxTime == 5       \* the clock stops after this many ticks
Wait == 2          \* the throttle's wait of 1000 ms, in ticks
MaxNamed == 3      \* files posted to the upload endpoint in one behaviour
MaxOps == 2        \* facade calls in one behaviour
MaxColls == 3      \* collections a backend holds in one behaviour
MaxFaults == 1     \* failing backend requests during one initCollections()
MaxCalls == 1      \* capabilities called before initialize() settled
MaxBoots == 2      \* starts of the process in one behaviour
MaxShutSets == 2   \* setStorageValue() calls before a shutdown
MaxShutTime == 3   \* ticks of the clock before a shutdown
MaxModelLoads == 1 \* loadModel() calls in one behaviour
MaxUrlCalls == 2   \* locator calls in one behaviour
MaxCollUploads == 1 \* uploadCollection() calls in one behaviour

----------------------------------------------------------------------------
(* Loader: keys, tokens, handles *)

Types == {"hdr", "image", "texture", "model", "emote", "avatar", "script", "audio"}

\* A ref named <64 hex characters>.glb and a ref with a plain name.
HashRef == "asset://<hash64>.glb"
PlainRef == "asset://crash-block.glb"
Refs == {HashRef, PlainRef}

Keys == Types \X Refs

\* The keys the environment asks for in one behaviour: one of these pairs.
\* Together they cover every type; the hash-named ref is asked for as a model
\* (the name of a ref matters to models only), and the pair model/image shares
\* one url between two types.
Universes ==
  { {<<"model", HashRef>>, <<"model", PlainRef>>},
    {<<"model", PlainRef>>, <<"image", PlainRef>>},
    {<<"avatar", PlainRef>>, <<"audio", PlainRef>>},
    {<<"script", PlainRef>>, <<"hdr", PlainRef>>},
    {<<"emote", PlainRef>>, <<"texture", PlainRef>>} }
LoadKeys == UNION Universes

Absent == 0        \* promises.has(key) is false
Undef == -1        \* promises.has(key) is true and the stored value is undefined
NoHandle == 0
NoPreloader == [on |-> FALSE, awaits |-> <<>>]

\* has(type, url)
Has(k) == promises[k] # Absent

\* get(type, url)
Get(k) == results[k]

\* The state of the promise behind a token.  A value that is no promise
\* (undefined) counts as fulfilled for await and Promise.allSettled.
Settled(ps, tok) ==
  \/ tok = Undef
  \/ tok \in 1..Len(ps) /\ ps[tok].st \in {"fulfilled", "rejected"}

----------------------------------------------------------------------------
(* Loader: what load() does for each type *)

\* ServerLoader.load: the branch taken for a type.
\*   "none"       hdr, image, texture: no branch assigns promise (undefined)
\*   "fetchparse" model, emote: fetchArrayBuffer, then gltfLoader.parse(cb)
\*   "immediate"  avatar: resolves in the executor, nothing is fetched
\*   "fetcheval"  script: fetchText, then scripts.evaluate
\*   "reject"     audio: reject(null) in the executor
ServerLoadKind(type) ==
  CASE type \in {"hdr", "image", "texture"} -> "none"
    [] type \in {"model", "emote"} -> "fetchparse"
    [] type = "avatar" -> "immediate"
    [] type = "script" -> "fetcheval"
    [] type = "audio" -> "reject"

\* ClientLoader.load / insert: image and texture (load), image (insert) resolve
\* from img.onload and install no onerror; every other branch awaits its
\* parser, so a failure rejects the promise.
ClientOnloadOnly(type, origin) ==
  IF origin = "insert" THEN type = "image" ELSE type \in {"image", "texture"}

\* A promise created by load() or insert().
\*   st   "fetching" | "parsing" | "fulfilled" | "rejected" | "stuck"
\*        ("stuck": neither resolve nor reject can be called any more)
\*   io   TRUE when an underlying fetch and/or parse was started for it
\*   g    gen[key] when it was created
Pipe(k, origin, st, err, io, g) ==
  [key |-> k, origin |-> origin, st |-> st, err |-> err, io |-> io, g |-> g]

\* The part of the loader's state that load() reads and writes.
LoaderState == [promises |-> promises, results |-> results, files |-> files,
                pipes |-> pipes]

\* ServerLoader.load after the key was found absent from this.promises.
ServerLoadNew(S, k, g) ==
  LET kind == ServerLoadKind(k[1])
      id == Len(S.pipes) + 1
  IN CASE kind = "none" ->
            [S EXCEPT !.promises[k] = Undef]
       [] kind \in {"fetchparse", "fetcheval"} ->
            [S EXCEPT !.pipes = Append(@, Pipe(k, "load", "fetching", "none", TRUE, g)),
                      !.promises[k] = id]
       [] kind = "immediate" ->
            [S EXCEPT !.pipes = Append(@, Pipe(k, "load", "fulfilled", "none", FALSE, g)),
                      !.results[k] = id,
                      !.promises[k] = id]
       [] kind = "reject" ->
            [S EXCEPT !.pipes = Append(@, Pipe(k, "load", "rejected", "null", FALSE, g)),
                      !.promises[k] = id]

\* ClientLoader.load after the key was found absent: loadFile(url).then(...).
\* loadFile returns the cached File when this.files has the url and fetches
\* otherwise.
ClientLoadNew(S, k, g) ==
  LET id == Len(S.pipes) + 1
      st == IF k[2] \in S.files THEN "parsing" ELSE "fetching"
  IN [S EXCEPT !.pipes = Append(@, Pipe(k, "load", st, "none", TRUE, g)),
               !.promises[k] = id]

\* Mutant: load() without the lookup in this.promises.
MutLoadNoCacheCheck(v, S, k, g) ==
  IF v = "server" THEN ServerLoadNew(S, k, g) ELSE ClientLoadNew(S, k, g)

\* Mutant: load() that tries again when the cached promise was rejected.
MutLoadRetryFailed(v, S, k, g) ==
  IF /\ S.promises[k] # Absent
     /\ ~(S.promises[k] \in 1..Len(S.pipes) /\ S.pipes[S.promises[k]].st = "rejected")
  THEN S
  ELSE IF v = "server" THEN ServerLoadNew(S, k, g) ELSE ClientLoadNew(S, k, g)

\* Mutant: load() that attaches the caller to a load still in flight for
\* another key instead of starting its own.
MutLoadBehindOthers(v, S, k, g) ==
  LET busy == {i \in 1..Len(S.pipes) : S.pipes[i].st \in {"fetching", "parsing"}}
  IN IF S.promises[k] # Absent THEN S
     ELSE IF busy # {} THEN [S EXCEPT !.promises[k] = CHOOSE i \in busy : TRUE]
     ELSE IF v = "server" THEN ServerLoadNew(S, k, g)
     ELSE ClientLoadNew(S, k, g)

\* load(type, url) from the cache check on: a cached promise is returned as
\* it is, otherwise a new one is created and stored before load returns.
LoadCore(v, S, k, g) ==
  IF S.promises[k] # Absent THEN S
  ELSE IF v = "server" THEN ServerLoadNew(S, k, g)
  ELSE ClientLoadNew(S, k, g)

\* this.preloadItems.map(item => this.load(item.type, item.url)): the loads
\* run one after the other in the same turn; LoadAll returns the state after
\* items[i..] were loaded.
RECURSIVE LoadAll(_, _, _, _, _)
LoadAll(v, S, items, i, gs) ==
  IF i > Len(items) THEN S
  ELSE LoadAll(v, LoadCore(v, S, items[i], gs[items[i]]), items, i + 1, gs)

\* The promises Promise.allSettled waits for: what each load returned.
AwaitedTokens(S, items) == [i \in 1..Len(items) |-> S.promises[items[i]]]

----------------------------------------------------------------------------
(* Loader: actions *)

LoaderInit ==
  /\ variant \in {"client", "server"}
  /\ focus \in Universes
  /\ promises = [k \in Keys |-> Absent]
  /\ results = [k \in Keys |-> NoHandle]
  /\ files = {}
  /\ preloadItems = <<>>
  /\ preloader = NoPreloader
  /\ pipes = <<>>
  /\ callers = <<>>
  /\ gen = [k \in Keys |-> 0]
  /\ batch = <<>>
  /\ executed = FALSE
  /\ requests = 0
  /\ readyCount = 0
  /\ destroyed = FALSE

LoaderIdle ==
  /\ variant = "server"
  /\ focus = {}
  /\ promises = [k \in Keys |-> Absent]
  /\ results = [k \in Keys |-> NoHandle]
  /\ files = {}
  /\ preloadItems = <<>>
  /\ preloader = NoPreloader
  /\ pipes = <<>>
  /\ callers = <<>>
  /\ gen = [k \in Keys |-> 0]
  /\ batch = <<>>
  /\ executed = FALSE
  /\ requests = 0
  /\ readyCount = 0
  /\ destroyed = FALSE

\* A continuation of an async load() is queued: it runs before any other
\* task (run to completion, microtasks first).
Resumable(c) == callers[c].st = "waiting" /\ ~preloader.on
NoMicrotask == \A c \in 1..Len(callers) : ~Resumable(c)

\* The environment issues at most MaxRequests requests.
Budget == requests < MaxRequests

\* The first outside call of load() for a key (0 when there is none).
FirstCaller(cs, k) ==
  LET same == {c \in 1..Len(cs) : cs[c].key = k}
  IN IF same = {} THEN 0 ELSE CHOOSE c \in same : \A d \in same : c <= d

\* A call for k issued now is issued before the first call for k has settled.
IssuedEarly(k) ==
  LET f == FirstCaller(callers, k)
  IN \/ f = 0
     \/ callers[f].st = "waiting"
     \/ ~Settled(pipes, callers[f].ret)

SetLoaderState(S) ==
  /\ promises' = S.promises
  /\ results' = S.results
  /\ files' = S.files
  /\ pipes' = S.pipes

\* load(type, url) called from outside.  The client's load is async and first
\* awaits this.preloader when one is set; the server's load never does.
Load(k) ==
  /\ k \in focus
  /\ Budget
  /\ NoMicrotask
  /\ IF variant = "client" /\ preloader.on
     THEN /\ callers' = Append(callers, [key |-> k, st |-> "waiting", ret |-> Absent,
                                         g |-> 0, early |-> IssuedEarly(k)])
          /\ UNCHANGED <<promises, results, files, pipes>>
     ELSE LET S == LoadCore(variant, LoaderState, k, gen[k])
          IN /\ SetLoaderState(S)
             /\ callers' = Append(callers, [key |-> k, st |-> "returned",
                                            ret |-> S.promises[k], g |-> gen[k],
                                            early |-> IssuedEarly(k)])
  /\ requests' = requests + 1
  /\ UNCHANGED <<svars, kvars, xvars, variant, focus, preloadItems, preloader, gen, batch, executed,
                 readyCount, destroyed>>

\* The rest of the client's load() once the awaited preloader has settled.
ResumeLoad(c) ==
  /\ c \in 1..Len(callers)
  /\ Resumable(c)
  /\ LET k == callers[c].key
         S == LoadCore(variant, LoaderState, k, gen[k])
     IN /\ SetLoaderState(S)
        /\ callers' = [callers EXCEPT ![c].st = "returned",
                                      ![c].ret = S.promises[k],
                                      ![c].g = gen[k]]
  /\ UNCHANGED <<svars, kvars, xvars, variant, focus, preloadItems, preloader, gen, batch, executed, requests,
                 readyCount, destroyed>>

\* How a fetch can end.  The status of a failed fetch is kept for the server's
\* model and emote loads, whose callers may look at it; elsewhere only the
\* difference between a response and a failure matters.
FetchOutcomes(v, k) ==
  IF v = "server" /\ ServerLoadKind(k[1]) = "fetchparse" THEN {"ok", "404", "other"}
  ELSE {"ok", "other"}

\* The fetch of pipe i completes.
\*  server model/emote: fetchArrayBuffer throws (-> reject) or returns, and
\*    gltfLoader.parse(buffer, '', onLoad) is called with no onError;
\*  server script: fetchText, then scripts.evaluate in the same turn
\*    (outcome "other": fetchText or evaluate throws);
\*  client: loadFile caches the File (whatever the status of the response)
\*    and the type's parser starts; a network failure rejects.
FetchDone(i, outcome) ==
  /\ NoMicrotask
  /\ i \in 1..Len(pipes)
  /\ pipes[i].st = "fetching"
  /\ outcome \in FetchOutcomes(variant, pipes[i].key)
  /\ LET k == pipes[i].key IN
     IF variant = "server"
     THEN /\ files' = files
          /\ IF ServerLoadKind(k[1]) = "fetcheval"
             THEN IF outcome = "ok"
                  THEN /\ pipes' = [pipes EXCEPT ![i].st = "fulfilled"]
                       /\ results' = [results EXCEPT ![k] = i]
                  ELSE /\ pipes' = [pipes EXCEPT ![i].st = "rejected", ![i].err = outcome]
                       /\ results' = results
             ELSE /\ results' = results
                  /\ IF outcome = "ok"
                     THEN pipes' = [pipes EXCEPT ![i].st = "parsing"]
                     ELSE pipes' = [pipes EXCEPT ![i].st = "rejected", ![i].err = outcome]
     ELSE /\ results' = results
          /\ IF outcome = "other"
             THEN /\ pipes' = [pipes EXCEPT ![i].st = "rejected", ![i].err = outcome]
                  /\ files' = files
             ELSE /\ pipes' = [pipes EXCEPT ![i].st = "parsing"]
                  /\ files' = files \cup {k[2]}
  /\ UNCHANGED <<svars, kvars, xvars, variant, focus, promises, preloadItems, preloader, callers, gen, batch,
                 executed, requests, readyCount, destroyed>>

\* What a failed parse does to the promise of pipe p.
\*  server model/emote: parse was given no onError and runs outside the
\*    executor's try: neither resolve nor reject is ever called;
\*  client image/texture: only img.onload is installed;
\*  every other client branch awaits the parser inside the then-callback.
ParseFailure(v, p) ==
  IF v = "server" \/ ClientOnloadOnly(p.key[1], p.origin) THEN "stuck" ELSE "rejected"

\* The parse of pipe i completes: on success the handle is stored in
\* this.results under the pipe's key and the promise resolves with it.
ParseDone(i, ok) ==
  /\ NoMicrotask
  /\ i \in 1..Len(pipes)
  /\ pipes[i].st = "parsing"
  /\ IF ok
     THEN /\ pipes' = [pipes EXCEPT ![i].st = "fulfilled"]
          /\ results' = [results EXCEPT ![pipes[i].key] = i]
     ELSE /\ pipes' = [pipes EXCEPT ![i].st = ParseFailure(variant, pipes[i])]
          /\ results' = results
  /\ UNCHANGED <<svars, kvars, xvars, variant, focus, promises, files, preloadItems, preloader, callers, gen,
                 batch, executed, requests, readyCount, destroyed>>

\* ClientLoader.insert(type, url, file): parses the local file and stores the
\* new promise under the key, whatever the key held before.
Insert(k) ==
  /\ k \in focus
  /\ variant = "client"
  /\ NoMicrotask
  /\ Budget
  /\ requests' = requests + 1
  /\ pipes' = Append(pipes, Pipe(k, "insert", "parsing", "none", TRUE, gen[k] + 1))
  /\ promises' = [promises EXCEPT ![k] = Len(pipes) + 1]
  /\ gen' = [gen EXCEPT ![k] = @ + 1]
  /\ UNCHANGED <<svars, kvars, xvars, variant, focus, results, files, preloadItems, preloader, callers, batch,
                 executed, readyCount, destroyed>>

\* preload(type, url)
Preload(k) ==
  /\ k \in focus
  /\ NoMicrotask
  /\ ~executed
  /\ Budget
  /\ preloadItems' = Append(preloadItems, k)
  /\ requests' = requests + 1
  /\ UNCHANGED <<svars, kvars, xvars, variant, focus, promises, results, files, preloader, pipes, callers, gen,
                 batch, executed, readyCount, destroyed>>

\* Mutant: Promise.all instead of Promise.allSettled (a rejection means the
\* then-callback never runs).
MutAllFulfilled(ps, awaits) ==
  \A j \in 1..Len(awaits) :
    awaits[j] = Undef \/ (awaits[j] \in 1..Len(ps) /\ ps[awaits[j]].st = "fulfilled")

\* Promise.allSettled(promises): settles once every awaited promise has.
AllSettled(ps, awaits) == \A j \in 1..Len(awaits) : Settled(ps, awaits[j])

\* execPreload(): loads every registered item in this turn, then keeps the
\* promise of Promise.allSettled(...).then(...) in this.preloader.  The world
\* calls it once, after the items were registered.
ExecPreload ==
  /\ NoMicrotask
  /\ ~preloader.on
  /\ ~executed
  /\ LET S == LoadAll(variant, LoaderState, preloadItems, 1, gen)
     IN /\ SetLoaderState(S)
        /\ preloader' = [on |-> TRUE, awaits |-> AwaitedTokens(S, preloadItems)]
        /\ batch' = [i \in 1..Len(preloadItems) |-> S.promises[preloadItems[i]]]
  /\ executed' = TRUE
  /\ UNCHANGED <<svars, kvars, xvars, variant, focus, preloadItems, callers, gen, requests, readyCount, destroyed>>

\* The then-callback of the preloader: this.preloader = null and, on the
\* client, this.world.emit('ready', true).
PreloaderDone ==
  /\ preloader.on
  /\ AllSettled(pipes, preloader.awaits)
  /\ preloader' = NoPreloader
  /\ readyCount' = IF variant = "client" THEN readyCount + 1 ELSE readyCount
  /\ UNCHANGED <<svars, kvars, xvars, variant, focus, promises, results, files, preloadItems, pipes, callers,
                 gen, batch, executed, requests, destroyed>>

\* ServerLoader.destroy(): clears promises, results and preloadItems; loads
\* in flight are not cancelled and this.preloader is left as it is.
Destroy ==
  /\ variant = "server"
  /\ ~destroyed
  /\ promises' = [k \in Keys |-> Absent]
  /\ results' = [k \in Keys |-> NoHandle]
  /\ preloadItems' = <<>>
  /\ gen' = [k \in Keys |-> gen[k] + 1]
  /\ destroyed' = TRUE
  /\ UNCHANGED <<svars, kvars, xvars, variant, focus, files, preloader, pipes, callers, batch, executed,
                 requests, readyCount>>

LoaderNext ==
  \/ \E k \in LoadKeys : Load(k)
  \/ \E c \in 1..Len(callers) : ResumeLoad(c)
  \/ \E i \in 1..Len(pipes), o \in {"ok", "404", "other"} : FetchDone(i, o)
  \/ \E i \in 1..Len(pipes), ok \in BOOLEAN : ParseDone(i, ok)
  \/ \E k \in LoadKeys : Insert(k)
  \/ \E k \in LoadKeys : Preload(k)
  \/ ExecPreload
  \/ PreloaderDone
  \/ Destroy


----------------------------------------------------------------------------
(* Loader: claims *)

Returned == {c \in 1..Len(callers) : callers[c].st = "returned"}

IsPipe(tok) == tok \in 1..Len(pipes)

\* The variant starts an underlying fetch for a load of this type.
Fetches(v, type) ==
  v = "client" \/ ServerLoadKind(type) \in {"fetchparse", "fetcheval"}

\* The fetch+parse operations load() started for key k while gen[k] was g.
LoadPipes(k, g) ==
  {i \in 1..Len(pipes) : /\ pipes[i].key = k
                         /\ pipes[i].origin = "load"
                         /\ pipes[i].g = g
                         /\ pipes[i].io}

\* The calls for k that were issued before the first call for k settled.
EarlyGroup(k) == {c \in Returned : callers[c].key = k /\ callers[c].early}

BatchSettled == \A j \in 1..Len(batch) : Settled(pipes, batch[j])

\* C5: after execPreload() the aggregate completion (the preloader is
\* cleared; on the client 'ready' is emitted, once) has happened only if every
\* load of the batch has settled, resolved or rejected; and once they all
\* have settled, rejected ones included, the completion can take place.
C5_PreloadBarrier ==
  /\ (executed /\ ~preloader.on) => BatchSettled
  /\ (preloader.on /\ BatchSettled) => ENABLED PreloaderDone
  /\ Len(batch) = (IF executed THEN Len(preloadItems) ELSE 0) \/ destroyed
  /\ readyCount = (IF variant = "client" /\ executed /\ ~preloader.on THEN 1 ELSE 0)

\* The batch of two items has completed with one item rejected and one
\* resolved.
C5_Witness ==
  /\ executed /\ ~preloader.on
  /\ Len(batch) = 2
  /\ \E i, j \in 1..2 :
       /\ IsPipe(batch[i]) /\ pipes[batch[i]].st = "rejected"
       /\ IsPipe(batch[j]) /\ pipes[batch[j]].st = "fulfilled"

\* C6 as stated: while the batch of execPreload() is still settling no load()
\* starts a fetch, in either variant, and when the batch completes every
\* registered preload key holds a settled cache entry.
C6_LoadWaitsForPreload ==
  [][ /\ (preloader.on /\ ~AllSettled(pipes, batch)) =>
           \A i \in (Len(pipes) + 1)..Len(pipes') : pipes'[i].origin # "load"
      /\ (preloader.on /\ ~preloader'.on) =>
           \A j \in 1..Len(preloadItems) : Settled(pipes, promises[preloadItems[j]])
    ]_vars

\* C7 as stated: on the server a load of the hash-named model whose fetch
\* ended with a not-found status is not rejected (it resolves to the
\* placeholder model).
C7_FallbackOnLoad ==
  variant = "server" =>
    \A i \in 1..Len(pipes) :
      (pipes[i].key = <<"model", HashRef>> /\ pipes[i].err = "404")
        => pipes[i].st # "rejected"

\* The cache entry of k is a rejected promise.
Failed(k) == IsPipe(promises[k]) /\ pipes[promises[k]].st = "rejected"

\* The calls of load() for k that return in this step.
ReturnsNow(k) ==
  {c \in 1..Len(callers') :
     /\ callers'[c].key = k
     /\ callers'[c].st = "returned"
     /\ (c > Len(callers) \/ callers[c].st = "waiting")}

\* A step keeps the failed entry of k: the same rejected promise stays in
\* the cache, no promise is created for k, and a load() for k returns it.
KeepsFailure(k) ==
  /\ promises'[k] = promises[k]
  /\ pipes'[promises[k]] = pipes[promises[k]]
  /\ {i \in 1..Len(pipes') : pipes'[i].key = k} = {i \in 1..Len(pipes) : pipes[i].key = k}
  /\ \A c \in ReturnsNow(k) : callers'[c].ret = promises[k]

C9_AlwaysSettles ==
  \A i \in {j \in 1..Len(pipes) : pipes[j].origin = "load"} :
    /\ pipes[i].st \in {"fetching", "parsing", "fulfilled", "rejected"}
    /\ (Settled(pipes, i) /\ ~destroyed)
         => promises[pipes[i].key] # Absent

\* The promises created for key k so far.
PipesOf(ps, k) == {i \in 1..Len(ps) : ps[i].key = k}

\* C33 as stated: once get(type, ref) returns a handle for a key it returns
\* the same handle until the cache is cleared, under any sequence of load,
\* preload, execPreload and insert calls: no step replaces the cached handle
\* by another one or starts a second parse for a key that has an entry.
C33_HandleStable ==
  [][\A k \in LoadKeys :
       Get(k) # NoHandle =>
         \/ destroyed' /\ ~destroyed
         \/ /\ results'[k] = results[k]
            /\ PipesOf(pipes', k) = PipesOf(pipes, k)]_vars

\* C34 as stated: in every reachable state a key for which get(type, ref)
\* returns a handle is a key for which has(type, ref) is true, also after
\* destroy() when a load started before it completes after it.
C34_HandleImpliesHas ==
  \A k \in LoadKeys : Get(k) # NoHandle => Has(k)

\* C35: loads of different keys are independent. A call of load() is
\* attached to a promise of its own key only, it waits before the cache
\* lookup only for the preloader (client), and whatever the state of the
\* other loads (slow, failed, never settling) the fetch and the parse of a
\* load in progress can complete.
C35_IndependentKeys ==
  /\ \A c \in Returned :
       IsPipe(callers[c].ret) => pipes[callers[c].ret].key = callers[c].key
  /\ \A c \in 1..Len(callers) : callers[c].st = "waiting" => variant = "client"
  /\ NoMicrotask =>
       \A i \in 1..Len(pipes) :
         /\ pipes[i].st = "fetching" => ENABLED FetchDone(i, "ok")
         /\ pipes[i].st = "parsing" => ENABLED ParseDone(i, TRUE)

\* The load of one key never settles (its parse failed without calling
\* resolve or reject) and a load of another key, started after it, has
\* resolved.
C35_Witness ==
  \E c, d \in Returned :
    /\ callers[c].key # callers[d].key
    /\ IsPipe(callers[c].ret) /\ IsPipe(callers[d].ret)
    /\ callers[c].ret < callers[d].ret
    /\ pipes[callers[c].ret].st = "stuck"
    /\ pipes[callers[d].ret].st = "fulfilled"

----------------------------------------------------------------------------
(* Storage backends: names and objects *)

\* The length of a content hash in characters (the filter of listFiles).
HashLen == 64

Rep(c, n) == [i \in 1..n |-> c]

\* The contents a client uploads.
Bytes == {1, 2}

\* hashFile(buffer): the hex digest of the bytes, HashLen characters long and
\* different for different contents.
HashFile(b) == Rep(IF b = 1 THEN "a" ELSE "b", HashLen)

GlbExt == <<"g", "l", "b">>

\* `${hash}.${ext}`
FileName(hash, ext) == hash \o <<".">> \o ext

\* The filenames clients give to the files they post.
Filenames ==
  { <<"x", ".", "p", "n", "g">>,
    <<"y", ".", "p", "n", "g">>,
    <<"x", ".", "P", "N", "G">>,
    <<"m", ".", "g", "l", "b">>,
    <<"a", ".", "t", "a", "r", ".", "g", "z">>,
    <<"R", "E", "A", "D", "M", "E">>,
    <<"N", "O", "T", "E", "S">> }

GlbFilename == <<"m", ".", "g", "l", "b">>

\* The lower-case form of a character.
LowerOf(c) ==
  CASE c = "A" -> "a" [] c = "D" -> "d" [] c = "E" -> "e" [] c = "G" -> "g"
    [] c = "M" -> "m" [] c = "N" -> "n" [] c = "O" -> "o" [] c = "P" -> "p"
    [] c = "R" -> "r" [] c = "S" -> "s" [] c = "T" -> "t"
    [] OTHER -> c

\* Mutant: the extension is used as the client wrote it.
MutKeepCase(t) == t

\* String.prototype.toLowerCase()
ToLowerCase(t) == [i \in 1..Len(t) |-> LowerOf(t[i])]

\* filename.split('.').pop(): the text after the last '.', the whole
\* filename when it holds no '.'.
SplitPop(t) ==
  IF \E i \in 1..Len(t) : t[i] = "."
  THEN SubSeq(t, (CHOOSE i \in 1..Len(t) :
                    t[i] = "." /\ \A j \in (i + 1)..Len(t) : t[j] # ".") + 1, Len(t))
  ELSE t

\* The name POST /api/upload stores a file under.
StoredName(b, filename) == FileName(HashFile(b), ToLowerCase(SplitPop(filename)))

\* The names of the assets namespace, and the characters of each.
DirName == "dir64"
UploadNames == {"h1.glb", "h2.glb", "h3.tar.gz", "logo.png", "short.glb", "bare64"}
AssetNames == UploadNames \cup {DirName}

Text(n) ==
  CASE n = "h1.glb"    -> FileName(HashFile(1), GlbExt)
    [] n = "h2.glb"    -> FileName(HashFile(2), GlbExt)
    [] n = "h3.tar.gz" -> Rep("c", HashLen) \o <<".", "t", "a", "r", ".", "g", "z">>
    [] n = "logo.png"  -> <<"l", "o", "g", "o", ".", "p", "n", "g">>
    [] n = "short.glb" -> FileName(Rep("d", HashLen - 1), GlbExt)
    [] n = "bare64"    -> Rep("e", HashLen)
    [] n = "dir64"     -> Rep("f", HashLen)

\* The (name, bytes) pairs the callers of uploadFile pass: every name with the
\* first content, and one name with either content.
UploadInputs == {<<n, 1>> : n \in UploadNames} \cup {<<"h1.glb", 2>>}

NameOf(text) == CHOOSE n \in AssetNames : Text(n) = text

\* Mutant: the text before the last '.' of a name.
MutSplitLast(t) ==
  IF \E i \in 1..Len(t) : t[i] = "."
  THEN SubSeq(t, 1, (CHOOSE i \in 1..Len(t) :
                       t[i] = "." /\ \A j \in (i + 1)..Len(t) : t[j] # ".") - 1)
  ELSE t

\* file.split('.')[0]
Split0(t) ==
  IF \E i \in 1..Len(t) : t[i] = "."
  THEN SubSeq(t, 1, (CHOOSE i \in 1..Len(t) :
                       t[i] = "." /\ \A j \in 1..(i - 1) : t[j] # ".") - 1)
  ELSE t

\* An entry of the namespace: nothing, a directory (local backend), or an
\* object with its content and modification time.
NoObject == [data |-> 0, mtime |-> 0]
Directory == [data |-> -1, mtime |-> 0]
Present(o) == o.data # 0
IsFile(o) == o.data \in Bytes

\* The locator uploadFile returns.
UploadLocator(be, n) ==
  IF be = "local" THEN <<"assetsUrl", n>> ELSE <<"s3BaseUrl", "assetsPrefix", n>>

NoListing == [called |-> FALSE, ok |-> FALSE, names |-> {}, stored |-> {}]

----------------------------------------------------------------------------
(* Storage backends: actions *)

StoreIdle ==
  /\ backend = "local"
  /\ assets = [n \in AssetNames |-> NoObject]
  /\ reqs = <<>>
  /\ wclock = 0
  /\ listing = NoListing

\* The local assets directory holds a sub-directory; a bucket holds objects
\* only.
StoreInit ==
  /\ backend \in {"local", "s3"}
  /\ assets = [n \in AssetNames |->
                 IF n = DirName /\ backend = "local" THEN Directory ELSE NoObject]
  /\ reqs = <<>>
  /\ wclock = 0
  /\ listing = NoListing

Active(r) == reqs[r].pc # "done"

\* A new request for name n; the requests for n in progress overlap with it.
AddRequest(kind, n, b, pc) ==
  LET others == {q \in 1..Len(reqs) : Active(q) /\ reqs[q].name = n}
      marked == [q \in 1..Len(reqs) |->
                   IF q \in others THEN [reqs[q] EXCEPT !.overlap = TRUE] ELSE reqs[q]]
  IN Append(marked, [kind |-> kind, name |-> n, bytes |-> b, pc |-> pc,
                     pre |-> assets[n], post |-> NoObject, wrote |-> FALSE,
                     overlap |-> others # {}, url |-> <<>>])

\* Where the adapter's uploadFile starts.
AdapterEntry == IF backend = "local" THEN "exists" ELSE "put"

\* The request returns from uploadFile.
Finished(rq, obj) ==
  [rq EXCEPT !.pc = "done", !.post = obj, !.url = UploadLocator(backend, rq.name)]

\* StorageManager.uploadFile(filename, buffer, contentType) is called.
UploadFile(n, b) ==
  /\ Len(reqs) < MaxUploads
  /\ reqs' = AddRequest("direct", n, b, AdapterEntry)
  /\ UNCHANGED <<lvars, kvars, xvars, backend, assets, wclock, listing>>

\* POST /api/upload receives a file with content b and a .glb filename.
PostUpload(b) ==
  /\ Len(reqs) < MaxUploads
  /\ reqs' = AddRequest("endpoint", NameOf(StoredName(b, GlbFilename)), b, "check")
  /\ UNCHANGED <<lvars, kvars, xvars, backend, assets, wclock, listing>>

\* The endpoint's storageManager.fileExists(filename) answers.
EndpointCheck(r) ==
  /\ reqs[r].pc = "check"
  /\ reqs' = [reqs EXCEPT ![r] =
                IF Present(assets[reqs[r].name])
                THEN Finished(reqs[r], assets[reqs[r].name])
                ELSE [reqs[r] EXCEPT !.pc = AdapterEntry]]
  /\ UNCHANGED <<lvars, kvars, xvars, backend, assets, wclock, listing>>

\* FileStorage.uploadFile: fs.exists(filePath) answers.
FsExists(r) ==
  /\ reqs[r].pc = "exists"
  /\ reqs' = [reqs EXCEPT ![r] =
                IF Present(assets[reqs[r].name])
                THEN Finished(reqs[r], assets[reqs[r].name])
                ELSE [reqs[r] EXCEPT !.pc = "write"]]
  /\ UNCHANGED <<lvars, kvars, xvars, backend, assets, wclock, listing>>

\* The backend stores the bytes of request r under its name.
WriteObject(r) ==
  LET obj == [data |-> reqs[r].bytes, mtime |-> wclock + 1]
  IN /\ assets' = [assets EXCEPT ![reqs[r].name] = obj]
     /\ wclock' = wclock + 1
     /\ reqs' = [reqs EXCEPT ![r] = [Finished(reqs[r], obj) EXCEPT !.wrote = TRUE]]

\* FileStorage.uploadFile: fs.writeFile(filePath, buffer) completes.
FsWriteFile(r) ==
  /\ reqs[r].pc = "write"
  /\ WriteObject(r)
  /\ UNCHANGED <<lvars, kvars, xvars, backend, listing>>

\* AwsS3Storage.uploadFile: the PutObjectCommand completes.
PutObject(r) ==
  /\ reqs[r].pc = "put"
  /\ WriteObject(r)
  /\ UNCHANGED <<lvars, kvars, xvars, backend, listing>>

\* listFiles(): the names of the directory (regular files only) or of the
\* bucket's assets prefix whose split('.')[0] has HashLen characters; an error
\* while listing is caught and the answer is the empty list.
ListFiles(ok) ==
  LET entries == IF backend = "local"
                 THEN {n \in AssetNames : IsFile(assets[n])}
                 ELSE {n \in AssetNames : Present(assets[n])}
  IN /\ listing' = [called |-> TRUE, ok |-> ok,
                    names |-> IF ok
                              THEN {n \in entries : Len(Split0(Text(n))) = HashLen}
                              ELSE {},
                    stored |-> {n \in AssetNames : IsFile(assets[n])}]
     /\ UNCHANGED <<lvars, kvars, xvars, backend, assets, reqs, wclock>>

StoreNext ==
  \/ \E in \in UploadInputs : UploadFile(in[1], in[2])
  \/ \E b \in Bytes : PostUpload(b)
  \/ \E r \in 1..Len(reqs) : EndpointCheck(r)
  \/ \E r \in 1..Len(reqs) : FsExists(r)
  \/ \E r \in 1..Len(reqs) : FsWriteFile(r)
  \/ \E r \in 1..Len(reqs) : PutObject(r)
  \/ \E ok \in BOOLEAN : ListFiles(ok)

----------------------------------------------------------------------------
(* Storage backends: claims *)

\* C2 as stated: an uploadFile(name, bytes, contentType) call that no other
\* upload of the name overlaps writes if and only if no object of that name
\* existed when it was called; when one existed, its content and modifiedAt
\* are the same after the call as before, and the call returns the locator
\* the earlier uploads of the name returned.
C2_IdempotentUpload ==
  \A r \in 1..Len(reqs) :
    (reqs[r].kind = "direct" /\ reqs[r].pc = "done" /\ ~reqs[r].overlap) =>
      /\ reqs[r].wrote <=> ~Present(reqs[r].pre)
      /\ Present(reqs[r].pre) => reqs[r].post = reqs[r].pre
      /\ \A q \in 1..(r - 1) :
           (reqs[q].name = reqs[r].name /\ reqs[q].pc = "done")
             => reqs[q].url = reqs[r].url

\* The upload requests that wrote an object under name n.
Writers(rs, n) == {r \in 1..Len(rs) : rs[r].name = n /\ rs[r].wrote}

\* C3 as stated: when the upload requests for a name all come through the
\* upload endpoint with the same bytes, at most one of them writes, and an
\* object that is visible keeps its content and modifiedAt.
C3_AtMostOneWrite ==
  [][\A n \in UploadNames :
       (\A r \in 1..Len(reqs') : reqs'[r].name = n => reqs'[r].kind = "endpoint")
         => /\ Cardinality(Writers(reqs', n)) <= 1
            /\ Present(assets[n]) => assets'[n] = assets[n]
    ]_vars

\* The stem of a name (its text before the first '.') has HashLen characters.
StemIsHash(t) ==
  /\ Len(t) >= HashLen
  /\ \A i \in 1..HashLen : t[i] # "."
  /\ (Len(t) = HashLen \/ t[HashLen + 1] = ".")

\* C10 as stated: listFiles() returns exactly the stored asset names whose
\* stem has 64 characters.
C10_Original ==
  listing.called =>
    listing.names = {n \in listing.stored : StemIsHash(Text(n))}

\* C10 (amended): when the listing of the directory or bucket succeeds,
\* listFiles() returns exactly the stored asset names whose stem has 64
\* characters; when it fails, listFiles() returns the empty list.
C10_ListingFilter ==
  listing.called =>
    listing.names = IF listing.ok
                    THEN {n \in listing.stored : StemIsHash(Text(n))}
                    ELSE {}

\* A listing of a namespace that holds a hash-named and a plain-named object
\* returned the former and not the latter.
C10_Witness ==
  /\ listing.called /\ listing.ok
  /\ "logo.png" \in listing.stored \ listing.names
  /\ \E n \in listing.names : n \in {"h1.glb", "h2.glb", "h3.tar.gz"}

----------------------------------------------------------------------------
(* Key-value document: values, throttle *)

KVKeys == {"k1", "k2"}

\* The values callers pass to setStorageValue, and what a property can hold.
SetValues == {"1", "NaN", "undefined"}
NoValue == "absent"
Throws == "throws"

\* JSON.parse(JSON.stringify(value)): NaN is serialized as null; undefined
\* has no serialization and parsing it throws.
JsonRoundTrip(v) ==
  CASE v = "undefined" -> Throws
    [] v = "NaN"       -> "null"
    [] OTHER           -> v

EmptyDoc == [k \in KVKeys |-> NoValue]

NoTime == -1

\* throttle(func, Wait, {leading: true, trailing: true}) before its first call.
NewThrottle ==
  [lastCallTime |-> NoTime, lastInvokeTime |-> 0, timer |-> FALSE, due |-> 0,
   pending |-> FALSE]

NoBurst == [open |-> FALSE, closed |-> FALSE, n |-> 0, w |-> 0,
            mem |-> EmptyDoc, doc |-> EmptyDoc]

Min(a, b) == IF a < b THEN a ELSE b

\* shouldInvoke(time), with maxWait = Wait
ShouldInvoke(th, time) ==
  \/ th.lastCallTime = NoTime
  \/ time - th.lastCallTime >= Wait
  \/ time - th.lastCallTime < 0
  \/ time - th.lastInvokeTime >= Wait

\* remainingWait(time)
RemainingWait(th, time) ==
  Min(Wait - (time - th.lastCallTime), Wait - (time - th.lastInvokeTime))

\* invokeFunc(time): the arguments are consumed and func is called.
InvokeFunc(th, time) == [th EXCEPT !.pending = FALSE, !.lastInvokeTime = time]

\* A call of the throttled function at `time`: the new state of the throttle
\* and whether func was invoked by this call.
Debounced(th, time) ==
  LET called == [th EXCEPT !.pending = TRUE, !.lastCallTime = time]
  IN IF ShouldInvoke(th, time)
     THEN [th |-> [InvokeFunc(called, time) EXCEPT !.timer = TRUE, !.due = time + Wait],
           invoked |-> TRUE]
     ELSE IF ~th.timer
          THEN [th |-> [called EXCEPT !.timer = TRUE, !.due = time + Wait],
                invoked |-> FALSE]
          ELSE [th |-> called, invoked |-> FALSE]

\* Mutant: a throttle created with {trailing: false}.
MutNoTrailing(th, time) ==
  [th |-> [th EXCEPT !.timer = FALSE, !.pending = FALSE], invoked |-> FALSE]

\* trailingEdge(time)
TrailingEdge(th, time) ==
  IF th.pending
  THEN [th |-> [InvokeFunc(th, time) EXCEPT !.timer = FALSE], invoked |-> TRUE]
  ELSE [th |-> [th EXCEPT !.timer = FALSE, !.pending = FALSE], invoked |-> FALSE]

\* timerExpired()
TimerExpiredAt(th, time) ==
  IF ShouldInvoke(th, time)
  THEN TrailingEdge(th, time)
  ELSE [th |-> [th EXCEPT !.due = time + RemainingWait(th, time)], invoked |-> FALSE]

----------------------------------------------------------------------------
(* Key-value document: actions *)

KVIdle ==
  /\ now = 0
  /\ storageLoaded = FALSE
  /\ storageData = EmptyDoc
  /\ throttle = NewThrottle
  /\ inflight = {}
  /\ persisted = EmptyDoc
  /\ sets = 0
  /\ burst = NoBurst

\* The state after the constructor; storage.json holds an earlier document
\* or none.
KVInit ==
  /\ now = 0
  /\ storageLoaded = FALSE
  /\ storageData = EmptyDoc
  /\ throttle = NewThrottle
  /\ inflight = {}
  /\ persisted \in {EmptyDoc, [EmptyDoc EXCEPT !["k1"] = "1"]}
  /\ sets = 0
  /\ burst = NoBurst

Tick ==
  /\ now < MaxTime
  /\ now' = now + 1
  /\ UNCHANGED <<lvars, svars, xvars, storageLoaded, storageData, throttle, inflight, persisted,
                 sets, burst>>

\* initStorageData(): the document of the backend, or {} when loading fails.
InitStorageData(ok) ==
  /\ ~storageLoaded
  /\ storageData' = IF ok THEN persisted ELSE EmptyDoc
  /\ storageLoaded' = TRUE
  /\ UNCHANGED <<lvars, svars, xvars, now, throttle, inflight, persisted, sets, burst>>

\* The calls and writes since the last leading edge, after a call of the
\* throttled function that went from throttle state th to res.
BurstAfterCall(th, res, doc) ==
  IF res.invoked /\ ~th.timer
  THEN [open |-> TRUE, closed |-> FALSE, n |-> 1, w |-> 1, mem |-> doc, doc |-> doc]
  ELSE IF ~burst.open THEN burst
  ELSE IF res.invoked
       THEN [open |-> FALSE, closed |-> TRUE, n |-> burst.n + 1, w |-> burst.w + 1,
             mem |-> doc, doc |-> doc]
       ELSE [burst EXCEPT !.n = @ + 1, !.mem = doc]

BurstAfterTimer(res, doc) ==
  IF ~burst.open \/ res.th.timer THEN burst
  ELSE IF res.invoked
       THEN [burst EXCEPT !.open = FALSE, !.closed = TRUE, !.w = @ + 1, !.doc = doc]
       ELSE [burst EXCEPT !.open = FALSE, !.closed = TRUE]

\* Mutant: setStorageValue without the JSON round trip and its try/catch.
MutSetNoRoundTrip(k, v) ==
  /\ sets < MaxSets
  /\ sets' = sets + 1
  /\ IF ~storageLoaded
     THEN UNCHANGED <<storageData, throttle, inflight, burst>>
     ELSE LET doc == [storageData EXCEPT ![k] = v]
              res == Debounced(throttle, now)
          IN /\ storageData' = doc
             /\ throttle' = res.th
             /\ inflight' = IF res.invoked THEN inflight \cup {doc} ELSE inflight
             /\ burst' = BurstAfterCall(throttle, res, doc)
  /\ UNCHANGED <<lvars, svars, xvars, now, storageLoaded, persisted>>

\* setStorageValue(key, value): ignored before the document is loaded and
\* when the value does not survive the JSON round trip; otherwise the
\* property is set and the throttled saveStorageData() is called, which may
\* invoke persistStorageData() at once: storage.saveStorageData(storageData)
\* serializes the document as it is now and starts the write.
SetStorageValue(k, v) ==
  /\ sets < MaxSets
  /\ sets' = sets + 1
  /\ IF ~storageLoaded \/ JsonRoundTrip(v) = Throws
     THEN UNCHANGED <<storageData, throttle, inflight, burst>>
     ELSE LET doc == [storageData EXCEPT ![k] = JsonRoundTrip(v)]
              res == Debounced(throttle, now)
          IN /\ storageData' = doc
             /\ throttle' = res.th
             /\ inflight' = IF res.invoked THEN inflight \cup {doc} ELSE inflight
             /\ burst' = BurstAfterCall(throttle, res, doc)
  /\ UNCHANGED <<lvars, svars, xvars, now, storageLoaded, persisted>>

\* The timer of the throttle fires, at its due time or later.
TimerExpired ==
  /\ throttle.timer
  /\ now >= throttle.due
  /\ LET res == TimerExpiredAt(throttle, now)
     IN /\ throttle' = res.th
        /\ inflight' = IF res.invoked THEN inflight \cup {storageData} ELSE inflight
        /\ burst' = BurstAfterTimer(res, storageData)
  /\ UNCHANGED <<lvars, svars, xvars, now, storageLoaded, storageData, persisted, sets>>

\* A write of the backend's saveStorageData ends: the document is stored, or
\* the error is caught and logged by persistStorageData().
SaveDone(doc, ok) ==
  /\ doc \in inflight
  /\ inflight' = inflight \ {doc}
  /\ persisted' = IF ok THEN doc ELSE persisted
  /\ UNCHANGED <<lvars, svars, xvars, now, storageLoaded, storageData, throttle, sets, burst>>

\* this.storageData[key]: reading a key that is not a property of the
\* document yields undefined.
ReadProperty(doc, k) == IF doc[k] = NoValue THEN "undefined" ELSE doc[k]

\* getStorageValue(key): undefined (after a warning on the console) before
\* the document is loaded, the property afterwards.
GetStorageValue(loaded, doc, k) == IF ~loaded THEN "undefined" ELSE ReadProperty(doc, k)

Docs == [KVKeys -> {NoValue, "1", "null"}]

KVNext ==
  \/ Tick
  \/ \E ok \in BOOLEAN : InitStorageData(ok)
  \/ \E k \in KVKeys, v \in SetValues : SetStorageValue(k, v)
  \/ TimerExpired
  \/ \E doc \in Docs, ok \in BOOLEAN : SaveDone(doc, ok)

----------------------------------------------------------------------------
(* Key-value document: claims *)

\* C4: a burst of n >= 2 accepted set calls that starts at an idle throttle
\* (its first call takes the leading edge) and ends with the next write the
\* throttle starts gets at least two writes, the leading and the trailing
\* one, fewer than n when n > 2, and the last of them writes the document as
\* the last set call of the burst left it.
C4_ThrottledPersistence ==
  (burst.closed /\ burst.n >= 2) =>
    /\ burst.w >= 2
    /\ (burst.n > 2 => burst.w < burst.n)
    /\ burst.doc = burst.mem

\* A burst of three set calls was closed by its trailing write, and the last
\* call had changed the document.
C4_Witness ==
  /\ burst.closed /\ burst.n = 3 /\ burst.w = 2
  /\ ~throttle.timer
  /\ burst.doc = storageData
  /\ storageData["k2"] = "null"

\* C13 as stated: get(key) before the initial load of the document has
\* completed returns a value different from the one get returns for a key
\* that is absent from a loaded document.
C13_NotLoadedDistinct ==
  ~storageLoaded =>
    \A k \in KVKeys :
      GetStorageValue(storageLoaded, storageData, k) # GetStorageValue(TRUE, EmptyDoc, k)

\* What a set call leaves behind when it is rejected: the document is the
\* same for every key and no persist is scheduled or started.
SetRejected ==
  /\ storageData' = storageData
  /\ throttle' = throttle
  /\ inflight' = inflight

\* What a set call leaves behind when it stores the round trip of v under k
\* and calls the throttled save.
SetStored(k, v) ==
  /\ storageData' = [storageData EXCEPT ![k] = JsonRoundTrip(v)]
  /\ throttle'.lastCallTime = now

\* C14 as stated: every set(key, value) stores the result of the JSON round
\* trip of value, and a value that is not serializable is rejected with the
\* document unchanged for every key and no persist triggered.
C14_Original ==
  [][\A k \in KVKeys, v \in SetValues :
       SetStorageValue(k, v) =>
         IF JsonRoundTrip(v) = Throws THEN SetRejected ELSE SetStored(k, v)]_vars

\* C14 (amended): every set(key, value) issued once the document is loaded
\* stores the result of the JSON round trip of value, and a value that is
\* not serializable is rejected with the document unchanged for every key
\* and no persist triggered; a set issued before the document is loaded is
\* ignored in the same way.
C14_RoundTripOrReject ==
  [][\A k \in KVKeys, v \in SetValues :
       SetStorageValue(k, v) =>
         IF ~storageLoaded \/ JsonRoundTrip(v) = Throws
         THEN SetRejected
         ELSE SetStored(k, v)]_vars

\* Two set calls on the loaded document: NaN was stored as null under k2,
\* and the other call left no trace in the document or in the throttle.
C14_Witness ==
  /\ storageLoaded
  /\ sets = 2
  /\ storageData = [EmptyDoc EXCEPT !["k2"] = "null"]
  /\ persisted = EmptyDoc
  /\ burst.open /\ burst.n = 1

----------------------------------------------------------------------------
(* Upload endpoint: the stored name *)

NamesIdle == named = <<>>

\* POST /api/upload receives a file with content b under a filename: the
\* extension is taken from the filename, the hash from the bytes.
NameUpload(b, filename) ==
  /\ Len(named) < MaxNamed
  /\ named' = Append(named, [bytes |-> b, filename |-> filename,
                             key |-> StoredName(b, filename)])
  /\ UNCHANGED <<lvars, svars, kvars, ovars, cvars, bvars>>

NamesNext == \E b \in Bytes, f \in Filenames : NameUpload(b, f)

HasDot(t) == \E i \in 1..Len(t) : t[i] = "."

\* The extension of a filename: the text after its last '.', and nothing
\* when it has no '.'.
Extension(t) ==
  IF HasDot(t)
  THEN SubSeq(t, Len(t) + 1 - (CHOOSE n \in 0..Len(t) :
                                 /\ t[Len(t) - n] = "."
                                 /\ \A j \in (Len(t) - n + 1)..Len(t) : t[j] # "."), Len(t))
  ELSE <<>>

\* Letters and their lower-case forms, for comparing ignoring case.
CasePairs ==
  {<<"A", "a">>, <<"D", "d">>, <<"E", "e">>, <<"G", "g">>, <<"M", "m">>, <<"N", "n">>,
   <<"O", "o">>, <<"P", "p">>, <<"R", "r">>, <<"S", "s">>, <<"T", "t">>}

IsLowerOf(c, d) == <<d, c>> \in CasePairs \/ (c = d /\ \A q \in CasePairs : q[1] # d)

\* e is t written in lower case.
IsLowerCaseOf(e, t) ==
  /\ Len(e) = Len(t)
  /\ \A i \in 1..Len(t) : IsLowerOf(e[i], t[i])

----------------------------------------------------------------------------
(* Storage facade: what the backend answers and what the adapters return *)

\* The answer of the file system or of S3 to a request about one name: the
\* object was found, it does not exist (ENOENT, NotFound, NoSuchKey), or the
\* request failed for another reason.
Responses(present) == IF present THEN {"ok", "error"} ELSE {"notfound", "error"}

\* A delete of a name that does not exist succeeds on both backends.
DeleteResponses == {"ok", "error"}

\* What a call gives back to its caller.
Return(v) == [raised |-> FALSE, error |-> "", value |-> v]
Raise(msg) == [raised |-> TRUE, error |-> msg, value |-> [t |-> "undefined"]]

Bool(b) == [t |-> "boolean", v |-> b]
Null == [t |-> "null"]

BackendError == "backend error"

\* FileStorage.fileExists: fs.exists resolves to false on any failure.
FsFileExists(resp) == Return(Bool(resp = "ok"))

\* Mutant: every failure of the HeadObject request is passed on.
MutExistsRethrowAll(resp) ==
  IF resp = "ok" THEN Return(Bool(TRUE)) ELSE Raise(BackendError)

\* AwsS3Storage.fileExists: a NotFound error is false, any other is rethrown.
S3FileExists(resp) ==
  CASE resp = "ok"       -> Return(Bool(TRUE))
    [] resp = "notfound" -> Return(Bool(FALSE))
    [] OTHER             -> Raise(BackendError)

Stats(obj) == [t |-> "stats", size |-> obj.data, modified |-> obj.mtime]

\* FileStorage.getFileStats: null on any failure of fs.stat.
FsGetFileStats(resp, obj) == IF resp = "ok" THEN Return(Stats(obj)) ELSE Return(Null)

\* AwsS3Storage.getFileStats: null on NotFound, any other error is rethrown.
S3GetFileStats(resp, obj) ==
  CASE resp = "ok"       -> Return(Stats(obj))
    [] resp = "notfound" -> Return(Null)
    [] OTHER             -> Raise(BackendError)

Buffer(file) == [t |-> "buffer", file |-> file]

\* FileStorage.readCollection: null on any failure of fs.readFile.
FsReadCollection(resp, file) == IF resp = "ok" THEN Return(Buffer(file)) ELSE Return(Null)

\* AwsS3Storage.readCollection: null on NoSuchKey, any other error is
\* rethrown.
S3ReadCollection(resp, file) ==
  CASE resp = "ok"       -> Return(Buffer(file))
    [] resp = "notfound" -> Return(Null)
    [] OTHER             -> Raise(BackendError)

\* Mutant: a failed delete is passed on to the caller.
MutDeleteRethrow(resp) == IF resp = "ok" THEN Return(Bool(TRUE)) ELSE Raise(BackendError)

\* FileStorage.deleteFile: true when fs.remove succeeded, false (after
\* logging) when it failed.
FsDeleteFile(resp) == Return(Bool(resp = "ok"))

\* AwsS3Storage.deleteFile: true when the DeleteObject request succeeded,
\* false (after logging) when it failed.
S3DeleteFile(resp) == IF resp = "ok" THEN Return(Bool(TRUE)) ELSE Return(Bool(FALSE))

\* The StorageManager methods, on an initialized manager.
FacadeFileExists(be, resp) == IF be = "local" THEN FsFileExists(resp) ELSE S3FileExists(resp)

FacadeDeleteFile(be, resp) == IF be = "local" THEN FsDeleteFile(resp) ELSE S3DeleteFile(resp)

FacadeGetFileStats(be, resp, obj) ==
  IF be = "local" THEN FsGetFileStats(resp, obj) ELSE S3GetFileStats(resp, obj)

FacadeReadCollection(be, resp, file) ==
  IF be = "local" THEN FsReadCollection(resp, file) ELSE S3ReadCollection(resp, file)

\* The expiresIn argument of a caller; NoExpiry when the argument is omitted.
NoExpiry == 0
ShortExpiry == 60
Expiries == {NoExpiry, ShortExpiry}

\* The default values of expiresIn.
UploadExpiry == 300
DownloadExpiry == 3600

S3Only == "Presigned URLs are only available with S3 storage"

\* Mutant: the facade delegates without looking at isS3.
MutPresignedDelegate(isS3, expiresIn, default) ==
  [ret |-> Return([t |-> "url", expiresIn |-> IF expiresIn = NoExpiry THEN default
                                               ELSE expiresIn]),
   delegated |-> TRUE,
   expiresIn |-> IF expiresIn = NoExpiry THEN default ELSE expiresIn]

\* StorageManager.getPresignedUploadUrl / getPresignedDownloadUrl: throws on
\* a manager that is not on S3, else passes expiresIn (the default when the
\* caller omitted it) to the adapter, which signs a URL with it.
FacadePresigned(isS3, expiresIn, default) ==
  LET e == IF expiresIn = NoExpiry THEN default ELSE expiresIn
  IN IF ~isS3
     THEN [ret |-> Raise(S3Only), delegated |-> FALSE, expiresIn |-> NoExpiry]
     ELSE [ret |-> Return([t |-> "url", expiresIn |-> e]), delegated |-> TRUE,
           expiresIn |-> e]

----------------------------------------------------------------------------
(* Collections namespace *)

ManifestName == "manifest.json"

CollIds == {"default", "alpha", "zebra", "Zulu", "broken"}

\* The characters of each collection id.
IdText(id) ==
  CASE id = "default" -> <<"d", "e", "f", "a", "u", "l", "t">>
    [] id = "alpha"   -> <<"a", "l", "p", "h", "a">>
    [] id = "zebra"   -> <<"z", "e", "b", "r", "a">>
    [] id = "Zulu"    -> <<"Z", "u", "l", "u">>
    [] id = "broken"  -> <<"b", "r", "o", "k", "e", "n">>

\* The UTF-16 code unit of a character.
CodeUnit(c) ==
  CASE c = "Z" -> 90  [] c = "a" -> 97  [] c = "b" -> 98  [] c = "d" -> 100
    [] c = "e" -> 101 [] c = "f" -> 102 [] c = "h" -> 104 [] c = "k" -> 107
    [] c = "l" -> 108 [] c = "n" -> 110 [] c = "o" -> 111 [] c = "p" -> 112
    [] c = "r" -> 114 [] c = "t" -> 116 [] c = "u" -> 117 [] c = "z" -> 122

IsUpperCase(c) == CodeUnit(c) < 97

\* Collation weights of a letter: the primary weight is the letter whatever
\* its case, the tertiary weight puts the lower-case form first.
Primary(c) == IF IsUpperCase(c) THEN CodeUnit(c) + 32 ELSE CodeUnit(c)
Tertiary(c) == IF IsUpperCase(c) THEN 1 ELSE 0

\* Comparison of two sequences of numbers, element by element, a proper
\* prefix first: -1, 0 or 1.
CompareSeq(a, b) ==
  LET m == Min(Len(a), Len(b))
      diff == {i \in 1..m : a[i] # b[i]}
  IN IF diff = {}
     THEN IF Len(a) < Len(b) THEN -1 ELSE IF Len(a) > Len(b) THEN 1 ELSE 0
     ELSE LET i == CHOOSE j \in diff : \A k \in diff : j <= k
          IN IF a[i] < b[i] THEN -1 ELSE 1

CodeUnits(t) == [i \in 1..Len(t) |-> CodeUnit(t[i])]
PrimaryWeights(t) == [i \in 1..Len(t) |-> Primary(t[i])]
TertiaryWeights(t) == [i \in 1..Len(t) |-> Tertiary(t[i])]

\* String.prototype.localeCompare in the default locale: the letters decide
\* first, their case only between strings with the same letters.
LocaleCompare(s, t) ==
  LET p == CompareSeq(PrimaryWeights(s), PrimaryWeights(t))
  IN IF p # 0 THEN p ELSE CompareSeq(TertiaryWeights(s), TertiaryWeights(t))

\* Mutant: the callback without the two tests for 'default'.
MutComparatorNoDefault(a, b) == LocaleCompare(IdText(a.id), IdText(b.id))

\* The callback of collections.sort.
Comparator(a, b) ==
  IF a.id = "default" THEN -1
  ELSE IF b.id = "default" THEN 1
  ELSE LocaleCompare(IdText(a.id), IdText(b.id))

\* x put into a sorted sequence, after the elements it does not precede.
InsertSorted(x, sorted) ==
  LET before == {i \in 1..Len(sorted) : Comparator(x, sorted[i]) < 0}
      at == IF before = {} THEN Len(sorted) + 1
            ELSE CHOOSE i \in before : \A j \in before : i <= j
  IN SubSeq(sorted, 1, at - 1) \o <<x>> \o SubSeq(sorted, at, Len(sorted))

RECURSIVE SortCollections(_)
\* collections.sort(callback)
SortCollections(seq) ==
  IF seq = <<>> THEN <<>>
  ELSE InsertSorted(seq[Len(seq)], SortCollections(SubSeq(seq, 1, Len(seq) - 1)))

\* The manifest.json of each collection: its text parses or not, and the app
\* files it names.
Manifest(id) ==
  CASE id = "default" -> [valid |-> TRUE, apps |-> <<"a1.hyp", "a2.hyp", "a3.hyp">>]
    [] id = "alpha"   -> [valid |-> TRUE, apps |-> <<"gone.hyp">>]
    [] id = "zebra"   -> [valid |-> TRUE, apps |-> <<>>]
    [] id = "Zulu"    -> [valid |-> TRUE, apps |-> <<"a1.hyp">>]
    [] id = "broken"  -> [valid |-> FALSE, apps |-> <<>>]

\* The app files stored in the folder of each collection.
StoredApps(id) ==
  CASE id = "default" -> <<"a1.hyp", "a2.hyp", "a3.hyp">>
    [] id = "Zulu"    -> <<"a1.hyp">>
    [] OTHER          -> <<>>

InSeq(x, seq) == \E i \in 1..Len(seq) : seq[i] = x

AssetScheme == <<"a", "s", "s", "e", "t", ":", "/", "/">>

\* The url of an asset inside a bundle.
AssetUrl(n) == AssetScheme \o Text(n)

\* asset.url.slice(8)
Slice8(url) == SubSeq(url, 9, Len(url))

\* importApp(file): the blueprint and the assets of a bundle, or a throw
\* when the file is not a bundle.
ImportedApp(app) ==
  CASE app = "a1.hyp" -> [ok |-> TRUE, blueprint |-> "bp1",
                          assets |-> <<AssetUrl("h1.glb")>>]
    [] app = "a3.hyp" -> [ok |-> TRUE, blueprint |-> "bp3",
                          assets |-> <<AssetUrl("h1.glb"), AssetUrl("h2.glb")>>]
    [] OTHER          -> [ok |-> FALSE, blueprint |-> "", assets |-> <<>>]

\* The bytes of the asset files inside the bundles.
AssetData(n) == IF n = "h1.glb" THEN 1 ELSE 2

\* The collections a backend can hold in one behaviour.
Worlds == {w \in SUBSET CollIds : Cardinality(w) <= MaxColls}

\* The orders in which a backend can list a set of collections.
Orders(w) ==
  {o \in [1..Cardinality(w) -> w] : \A i, j \in 1..Cardinality(w) : o[i] = o[j] => i = j}

\* The files in the folder of a collection.
FolderFiles(id) ==
  <<<<id, ManifestName>>>> \o [i \in 1..Len(StoredApps(id)) |-> <<id, StoredApps(id)[i]>>]

RECURSIVE Flatten(_)
Flatten(seqs) == IF seqs = <<>> THEN <<>> ELSE Head(seqs) \o Flatten(Tail(seqs))

\* FileStorage.listCollections: the entries of the collections directory;
\* an error is caught and the answer is the empty list.
FsListCollections(order, resp) ==
  IF resp = "ok" THEN [i \in 1..Len(order) |-> <<order[i]>>] ELSE <<>>

\* AwsS3Storage.listCollections: the keys under the collections prefix,
\* without the prefix; an error is caught and the answer is the empty list.
S3ListCollections(order, resp) ==
  IF resp = "ok" THEN Flatten([i \in 1..Len(order) |-> FolderFiles(order[i])]) ELSE <<>>

\* file.endsWith('/manifest.json')
EndsWithManifest(file) == Len(file) >= 2 /\ file[Len(file)] = ManifestName

\* manifestFile.replace('/manifest.json', '')
CollectionId(file) == file[1]

\* initCollections() has not been called.
IdleLoader ==
  [pc |-> "idle", queue |-> <<>>, apps |-> <<>>, left |-> <<>>, blueprints |-> <<>>,
   collections |-> <<>>, listed |-> <<>>, bad |-> {}, failed |-> {}, regs |-> <<>>,
   puts |-> <<>>]

\* The backend holds the default collection and the loader is not running.
CollIdle ==
  /\ cworld = {"default"}
  /\ cl = IdleLoader
  /\ faults = 0

----------------------------------------------------------------------------
(* Storage facade: actions *)

OpNames == {"h1.glb", "h2.glb"}

\* The files of the collections namespace callers ask for.
OpFiles == {<<"default", ManifestName>>, <<"alpha", ManifestName>>}

OpsIdle == ops = <<>>

\* An initialized manager (this.isS3 is true exactly on the S3 backend) whose
\* assets namespace holds one object; the local assets directory holds a
\* sub-directory as well.
OpsStoreInit ==
  /\ backend \in {"local", "s3"}
  /\ assets = [n \in AssetNames |->
                 CASE n = "h1.glb" -> [data |-> 1, mtime |-> 1]
                   [] n = DirName /\ backend = "local" -> Directory
                   [] OTHER -> NoObject]
  /\ reqs = <<>>
  /\ wclock = 1
  /\ listing = NoListing

Logged(entry) ==
  /\ Len(ops) < MaxOps
  /\ ops' = Append(ops, entry)
  /\ UNCHANGED <<lvars, kvars, nvars, cvars, bvars, backend, reqs, wclock, listing>>

NoUrl == [delegated |-> FALSE, expiresIn |-> NoExpiry]

\* storageManager.fileExists(filename)
FileExists(n, resp) ==
  /\ resp \in Responses(Present(assets[n]))
  /\ Logged([op |-> "fileExists", name |-> <<n>>, resp |-> resp,
             ret |-> FacadeFileExists(backend, resp), gone |-> ~Present(assets[n]),
             url |-> NoUrl])
  /\ UNCHANGED assets

\* storageManager.getFileStats(filename)
GetFileStats(n, resp) ==
  /\ resp \in Responses(Present(assets[n]))
  /\ Logged([op |-> "getFileStats", name |-> <<n>>, resp |-> resp,
             ret |-> FacadeGetFileStats(backend, resp, assets[n]),
             gone |-> ~Present(assets[n]), url |-> NoUrl])
  /\ UNCHANGED assets

\* storageManager.readCollection(filename)
ReadCollection(file, resp) ==
  /\ resp \in Responses(file[1] \in cworld)
  /\ Logged([op |-> "readCollection", name |-> file, resp |-> resp,
             ret |-> FacadeReadCollection(backend, resp, file),
             gone |-> file[1] \notin cworld, url |-> NoUrl])
  /\ UNCHANGED assets

\* storageManager.deleteFile(filename): the object is removed when the
\* backend's delete succeeds.
DeleteFile(n, resp) ==
  /\ assets' = IF resp = "ok" THEN [assets EXCEPT ![n] = NoObject] ELSE assets
  /\ Logged([op |-> "deleteFile", name |-> <<n>>, resp |-> resp,
             ret |-> FacadeDeleteFile(backend, resp), gone |-> ~Present(assets'[n]),
             url |-> NoUrl])

\* storageManager.getPresignedUploadUrl(filename, contentType, expiresIn)
GetPresignedUploadUrl(n, expiresIn) ==
  LET r == FacadePresigned(backend = "s3", expiresIn, UploadExpiry)
  IN /\ Logged([op |-> "getPresignedUploadUrl", name |-> <<n>>, resp |-> "ok",
                ret |-> r.ret, gone |-> ~Present(assets[n]),
                url |-> [delegated |-> r.delegated, expiresIn |-> r.expiresIn]])
     /\ UNCHANGED assets

\* storageManager.getPresignedDownloadUrl(filename, expiresIn)
GetPresignedDownloadUrl(n, expiresIn) ==
  LET r == FacadePresigned(backend = "s3", expiresIn, DownloadExpiry)
  IN /\ Logged([op |-> "getPresignedDownloadUrl", name |-> <<n>>, resp |-> "ok",
                ret |-> r.ret, gone |-> ~Present(assets[n]),
                url |-> [delegated |-> r.delegated, expiresIn |-> r.expiresIn]])
     /\ UNCHANGED assets

Str(v) == [t |-> "string", v |-> v]

\* getPublicUrl(filename) of the two adapters.
PublicUrl(be, n) ==
  IF be = "local" THEN <<"assetsUrl", n>> ELSE <<"assetsBaseUrl", "assetsPrefix", n>>

UploadFailed == "Failed to upload file"
CheckFailed == "Failed to check file"

\* The adapters' uploadFile as the upload endpoint calls it: the locator, or
\* the error of the write.
FacadeUploadFile(be, n, resp) ==
  IF resp = "ok" THEN Return(Str(UploadLocator(be, n))) ELSE Raise(BackendError)

\* The reply of POST /api/upload for the derived name n, given the answers
\* of fileExists and (when the file does not exist) of uploadFile.
UploadReply(be, n, exists, uploaded) ==
  IF exists.raised \/ (~exists.value.v /\ uploaded.raised)
  THEN [code |-> 500, success |-> Bool(FALSE), error |-> UploadFailed, url |-> Null]
  ELSE [code |-> 200, success |-> Bool(TRUE), error |-> "",
        url |-> Str(PublicUrl(be, n))]

\* Mutant: the reply of the existence check carries the URL of the name
\* whether or not the object exists.
MutCheckAlwaysUrl(be, n, exists) ==
  IF exists.raised
  THEN [code |-> 500, exists |-> Null, error |-> CheckFailed, url |-> Null]
  ELSE [code |-> 200, exists |-> exists.value, error |-> "",
        url |-> Str(PublicUrl(be, n))]

\* The reply of GET /api/upload-check for filename n, given the answer of
\* fileExists.
UploadCheckReply(be, n, exists) ==
  IF exists.raised
  THEN [code |-> 500, exists |-> Null, error |-> CheckFailed, url |-> Null]
  ELSE [code |-> 200, exists |-> exists.value, error |-> "",
        url |-> IF exists.value.v THEN Str(PublicUrl(be, n)) ELSE Null]

\* POST /api/upload with a file whose derived name is n: fileExists answers
\* resp; when it answers false uploadFile is called and its write answers
\* wr (the local adapter writes only when the file is not there).
UploadEndpoint(n, resp, wr) ==
  /\ resp \in Responses(Present(assets[n]))
  /\ LET exists == FacadeFileExists(backend, resp)
         calls3 == ~exists.raised /\ ~exists.value.v
         writes == calls3 /\ (backend = "s3" \/ ~Present(assets[n]))
         uploaded == FacadeUploadFile(backend, n, IF writes THEN wr ELSE "ok")
     IN /\ ~writes => wr = "ok"
        /\ assets' = IF writes /\ wr = "ok"
                     THEN [assets EXCEPT ![n] = [data |-> AssetData(n), mtime |-> wclock + 1]]
                     ELSE assets
        /\ wclock' = IF writes /\ wr = "ok" THEN wclock + 1 ELSE wclock
        /\ Len(ops) < MaxOps
        /\ ops' = Append(ops, [op |-> "POST /api/upload", name |-> <<n>>, resp |-> resp,
                               ret |-> exists, gone |-> ~Present(assets'[n]),
                               url |-> NoUrl, wrote |-> writes /\ wr = "ok",
                               reply |-> UploadReply(backend, n, exists, uploaded)])
  /\ UNCHANGED <<lvars, kvars, nvars, cvars, bvars, backend, reqs, listing>>

\* GET /api/upload-check?filename=n
UploadCheck(n, resp) ==
  /\ resp \in Responses(Present(assets[n]))
  /\ Len(ops) < MaxOps
  /\ LET exists == FacadeFileExists(backend, resp)
     IN ops' = Append(ops, [op |-> "GET /api/upload-check", name |-> <<n>>, resp |-> resp,
                            ret |-> exists, gone |-> ~Present(assets[n]),
                            url |-> NoUrl, wrote |-> FALSE,
                            reply |-> UploadCheckReply(backend, n, exists)])
  /\ UNCHANGED <<lvars, kvars, nvars, cvars, bvars, svars>>

OpsNext ==
  \/ \E n \in OpNames, resp \in {"ok", "notfound", "error"} : FileExists(n, resp)
  \/ \E n \in OpNames, resp \in {"ok", "notfound", "error"} : GetFileStats(n, resp)
  \/ \E f \in OpFiles, resp \in {"ok", "notfound", "error"} : ReadCollection(f, resp)
  \/ \E n \in OpNames, resp \in DeleteResponses : DeleteFile(n, resp)
  \/ \E n \in OpNames, e \in Expiries : GetPresignedUploadUrl(n, e)
  \/ \E n \in OpNames, e \in Expiries : GetPresignedDownloadUrl(n, e)
  \/ \E n \in OpNames, resp \in {"ok", "notfound", "error"}, wr \in {"ok", "error"} :
       UploadEndpoint(n, resp, wr)
  \/ \E n \in OpNames, resp \in {"ok", "notfound", "error"} : UploadCheck(n, resp)

----------------------------------------------------------------------------
(* Storage facade: claims *)

Queries == {"fileExists", "getFileStats", "readCollection"}

\* C18: on both backends a query about a name that no object has, answered
\* by the backend as a miss, returns false from fileExists, null from
\* getFileStats and null from readCollection, and none of them raises.
C18_MissIsNormal ==
  \A i \in 1..Len(ops) :
    (ops[i].op \in Queries /\ ops[i].gone /\ ops[i].resp = "notfound") =>
      /\ ~ops[i].ret.raised
      /\ ops[i].ret.value = IF ops[i].op = "fileExists" THEN Bool(FALSE) ELSE Null

\* On S3 a fileExists and a getFileStats of a missing name both returned
\* their miss value.
C18_Witness ==
  /\ backend = "s3"
  /\ Len(ops) = 2
  /\ ops[1].op = "fileExists" /\ ops[1].name = <<"h2.glb">>
  /\ ops[1].ret = Return(Bool(FALSE))
  /\ ops[2].op = "getFileStats" /\ ops[2].name = <<"h2.glb">>
  /\ ops[2].ret = Return(Null)

\* C19: deleteFile never raises; it returns false when the underlying delete
\* failed, and when the delete succeeded it returns true and the object no
\* longer exists.
C19_DeleteBestEffort ==
  \A i \in 1..Len(ops) :
    ops[i].op = "deleteFile" =>
      /\ ~ops[i].ret.raised
      /\ ops[i].resp = "error" => ops[i].ret.value = Bool(FALSE)
      /\ ops[i].resp = "ok" => (ops[i].ret.value = Bool(TRUE) /\ ops[i].gone)

\* A delete of the stored object failed and returned false, the next one
\* succeeded, returned true, and the object is gone.
C19_Witness ==
  /\ Len(ops) = 2
  /\ ops[1].op = "deleteFile" /\ ops[1].name = <<"h1.glb">>
  /\ ops[1].ret = Return(Bool(FALSE)) /\ ~ops[1].gone
  /\ ops[2].op = "deleteFile" /\ ops[2].name = <<"h1.glb">>
  /\ ops[2].ret = Return(Bool(TRUE)) /\ ops[2].gone
  /\ ~Present(assets["h1.glb"])

Presigned == {"getPresignedUploadUrl", "getPresignedDownloadUrl"}

----------------------------------------------------------------------------
(* Collection loader: initCollections() *)

\* A backend with some collections and an assets namespace that holds the
\* first asset of the bundles or nothing.
CollInit ==
  /\ backend \in {"local", "s3"}
  /\ \E present \in BOOLEAN :
       assets = [n \in AssetNames |->
                   CASE n = "h1.glb" /\ present -> [data |-> 1, mtime |-> 0]
                     [] n = DirName /\ backend = "local" -> Directory
                     [] OTHER -> NoObject]
  /\ reqs = <<>>
  /\ wclock = 0
  /\ listing = NoListing
  /\ cworld \in Worlds
  /\ cl = IdleLoader
  /\ faults = 0

\* The loop over the manifests is over: the collections are sorted and
\* initCollections() returns them.
Finish(c) == [c EXCEPT !.pc = "done", !.collections = SortCollections(@)]

\* The body of the loop over the manifests ends, by `continue`, by the catch
\* or after the push.
AfterCollection(c) ==
  LET q == Tail(c.queue)
      next == [c EXCEPT !.queue = q, !.apps = <<>>, !.left = <<>>, !.blueprints = <<>>]
  IN IF q = <<>> THEN Finish(next) ELSE [next EXCEPT !.pc = "manifest"]

\* Mutant: a collection without blueprints is dropped.
MutRegisterNonEmpty(c) ==
  IF c.blueprints = <<>> THEN AfterCollection(c)
  ELSE AfterCollection([c EXCEPT !.collections =
                          Append(@, [id |-> Head(c.queue), blueprints |-> c.blueprints])])

\* collections.push({id, name, blueprints}), in either branch.
Register(c) ==
  AfterCollection([c EXCEPT !.collections =
                     Append(@, [id |-> Head(c.queue), blueprints |-> c.blueprints])])

\* The body of the loop over manifest.apps ends.
AfterApp(c) ==
  LET a == Tail(c.apps)
      next == [c EXCEPT !.apps = a, !.left = <<>>]
  IN IF a = <<>> THEN Register(next) ELSE [next EXCEPT !.pc = "app"]

\* Mutant: a bundle that cannot be read or parsed ends the collection.
MutSkipCollection(c) ==
  AfterCollection([c EXCEPT !.failed = @ \cup {<<Head(c.queue), Head(c.apps)>>}])

\* The app file is missing (`continue`) or reading or importing it threw
\* (catch appError).
SkipApp(c) == AfterApp([c EXCEPT !.failed = @ \cup {<<Head(c.queue), Head(c.apps)>>}])

\* blueprints.push(app.blueprint), with the assets of the bundle that the
\* namespace `as` does not hold at that moment.
PushBlueprint(c, as) ==
  LET app == Head(c.apps)
      urls == ImportedApp(app).assets
  IN AfterApp([c EXCEPT
       !.blueprints = Append(@, ImportedApp(app).blueprint),
       !.regs = Append(@, [coll |-> Head(c.queue), app |-> app,
                           missing |-> {n \in AssetNames :
                                          /\ InSeq(AssetUrl(n), urls)
                                          /\ ~Present(as[n])}])])

\* The body of the loop over app.assets ends, normally or in the catch of
\* assetError.
AfterAsset(c, as) ==
  LET l == Tail(c.left)
  IN IF l = <<>> THEN PushBlueprint([c EXCEPT !.left = l], as)
     ELSE [c EXCEPT !.left = l, !.pc = "asset"]

\* A backend request fails only while the budget of failures lasts.
Fault(resp) ==
  /\ resp = "error" => faults < MaxFaults
  /\ faults' = IF resp = "error" THEN faults + 1 ELSE faults

\* initCollections() is called: storageManager.listCollections() answers,
\* the manifests are filtered, and the loader returns at once when there is
\* none.
InitCollections(order, resp) ==
  /\ cl.pc = "idle"
  /\ Fault(resp)
  /\ LET collectionFiles == IF backend = "local" THEN FsListCollections(order, resp)
                            ELSE S3ListCollections(order, resp)
         collectionManifests == SelectSeq(collectionFiles, EndsWithManifest)
         ids == [i \in 1..Len(collectionManifests) |-> CollectionId(collectionManifests[i])]
     IN cl' = IF collectionManifests = <<>>
              THEN [cl EXCEPT !.pc = "done"]
              ELSE [cl EXCEPT !.pc = "manifest", !.queue = ids, !.listed = ids]
  /\ UNCHANGED <<lvars, svars, kvars, bvars, nvars, ovars, cworld>>

\* storageManager.readCollection(manifestFile) answers and the manifest is
\* parsed: an absent manifest, an error and a manifest that does not parse
\* end the work on this collection.
ReadManifest(resp) ==
  /\ cl.pc = "manifest"
  /\ resp \in Responses(TRUE)
  /\ Fault(resp)
  /\ LET id == Head(cl.queue)
         r == FacadeReadCollection(backend, resp, <<id, ManifestName>>)
     IN cl' = IF r.raised \/ r.value = Null \/ ~Manifest(id).valid
              THEN AfterCollection([cl EXCEPT !.bad = @ \cup {id}])
              ELSE IF Manifest(id).apps = <<>>
                   THEN Register(cl)
                   ELSE [cl EXCEPT !.pc = "app", !.apps = Manifest(id).apps]
  /\ UNCHANGED <<lvars, svars, kvars, bvars, nvars, ovars, cworld>>

\* storageManager.readCollection(appFile) answers.
ReadApp(resp) ==
  /\ cl.pc = "app"
  /\ resp \in Responses(InSeq(Head(cl.apps), StoredApps(Head(cl.queue))))
  /\ Fault(resp)
  /\ LET r == FacadeReadCollection(backend, resp, <<Head(cl.queue), Head(cl.apps)>>)
     IN cl' = IF r.raised \/ r.value = Null THEN SkipApp(cl)
              ELSE [cl EXCEPT !.pc = "import"]
  /\ UNCHANGED <<lvars, svars, kvars, bvars, nvars, ovars, cworld>>

\* importApp(file) settles.
ImportApp ==
  /\ cl.pc = "import"
  /\ LET app == ImportedApp(Head(cl.apps))
     IN cl' = IF ~app.ok THEN SkipApp(cl)
              ELSE IF app.assets = <<>> THEN PushBlueprint(cl, assets)
              ELSE [cl EXCEPT !.pc = "asset", !.left = app.assets]
  /\ UNCHANGED <<lvars, svars, kvars, bvars, nvars, ovars, cworld, faults>>

\* storageManager.fileExists(assetFilename) answers: the asset is there, it
\* has to be uploaded, or the error is caught and the asset is left.
AssetExists(resp) ==
  /\ cl.pc = "asset"
  /\ resp \in Responses(Present(assets[NameOf(Slice8(Head(cl.left)))]))
  /\ Fault(resp)
  /\ LET r == FacadeFileExists(backend, resp)
     IN cl' = IF r.raised \/ r.value = Bool(TRUE) THEN AfterAsset(cl, assets)
              ELSE [cl EXCEPT !.pc = "upload"]
  /\ UNCHANGED <<lvars, svars, kvars, bvars, nvars, ovars, cworld>>

\* storageManager.uploadFile(assetFilename, buffer, contentType) settles:
\* the object is written (the local adapter writes only a name it does not
\* find), or the error is caught and the asset is left.
AssetUpload(resp) ==
  /\ cl.pc = "upload"
  /\ resp \in {"ok", "error"}
  /\ Fault(resp)
  /\ LET n == NameOf(Slice8(Head(cl.left)))
         writes == resp = "ok" /\ (backend = "s3" \/ ~Present(assets[n]))
         as == IF writes
               THEN [assets EXCEPT ![n] = [data |-> AssetData(n), mtime |-> wclock + 1]]
               ELSE assets
     IN /\ assets' = as
        /\ wclock' = IF writes THEN wclock + 1 ELSE wclock
        /\ cl' = AfterAsset([cl EXCEPT !.puts =
                               IF writes
                               THEN Append(@, [name |-> n, present |-> Present(assets[n])])
                               ELSE @], as)
  /\ UNCHANGED <<lvars, kvars, bvars, nvars, ovars, cworld, backend, reqs, listing>>

CollNext ==
  \/ \E order \in Orders(cworld), resp \in {"ok", "error"} : InitCollections(order, resp)
  \/ \E resp \in {"ok", "notfound", "error"} : ReadManifest(resp)
  \/ \E resp \in {"ok", "notfound", "error"} : ReadApp(resp)
  \/ ImportApp
  \/ \E resp \in {"ok", "notfound", "error"} : AssetExists(resp)
  \/ \E resp \in {"ok", "error"} : AssetUpload(resp)

----------------------------------------------------------------------------
(* Collection loader: claims *)

\* The ids of the collections initCollections() returned, in order.
ResultIds == [i \in 1..Len(cl.collections) |-> cl.collections[i].id]

Count(x, seq) == Cardinality({i \in 1..Len(seq) : seq[i] = x})

\* C11 as stated: the returned list has "default" first and the other
\* collections in lexicographic order of id (code unit by code unit).
C11_Original ==
  cl.pc = "done" =>
    \A i, j \in 1..Len(ResultIds) :
      i < j =>
        /\ ResultIds[j] # "default"
        /\ ResultIds[i] # "default" =>
             CompareSeq(CodeUnits(IdText(ResultIds[i])),
                        CodeUnits(IdText(ResultIds[j]))) < 0

\* C11 (amended): the returned list has "default" first and the other
\* collections in the order of localeCompare on their ids, which compares
\* the letters first and their case last, whatever the order of the listing.
C11_DefaultFirst ==
  cl.pc = "done" =>
    \A i, j \in 1..Len(ResultIds) :
      i < j =>
        /\ ResultIds[j] # "default"
        /\ ResultIds[i] # "default" =>
             \/ CompareSeq(PrimaryWeights(IdText(ResultIds[i])),
                           PrimaryWeights(IdText(ResultIds[j]))) < 0
             \/ /\ PrimaryWeights(IdText(ResultIds[i])) =
                     PrimaryWeights(IdText(ResultIds[j]))
                /\ CompareSeq(TertiaryWeights(IdText(ResultIds[i])),
                              TertiaryWeights(IdText(ResultIds[j]))) < 0

\* The backend listed zebra, default, alpha and the loader returned default,
\* alpha, zebra.
C11_Witness ==
  /\ cl.pc = "done"
  /\ cl.listed = <<"zebra", "default", "alpha">>
  /\ ResultIds = <<"default", "alpha", "zebra">>

\* C15 as stated: when a blueprint is registered every asset of its bundle
\* exists in the assets namespace, and the loader uploads no asset that is
\* already there.
C15_AssetsBeforeBlueprint ==
  /\ \A i \in 1..Len(cl.regs) : cl.regs[i].missing = {}
  /\ \A i \in 1..Len(cl.puts) : ~cl.puts[i].present

\* The blueprints of the bundles of a manifest that did not fail, in the
\* order of the manifest.
Usable(id) ==
  LET ok(app) == <<id, app>> \notin cl.failed
      kept == SelectSeq(Manifest(id).apps, ok)
  IN [i \in 1..Len(kept) |-> ImportedApp(kept[i]).blueprint]

\* C16: when the loader is done, every collection whose manifest was read
\* and parsed is in the result with the blueprints of all its bundles that
\* could be read and parsed, in manifest order, whichever other bundles and
\* collections failed.
C16_BundleFailureIsolated ==
  cl.pc = "done" =>
    \A i \in 1..Len(cl.listed) :
      cl.listed[i] \notin cl.bad =>
        \E k \in 1..Len(cl.collections) :
          /\ cl.collections[k].id = cl.listed[i]
          /\ cl.collections[k].blueprints = Usable(cl.listed[i])

\* The second bundle of the default collection failed and its first and
\* third blueprints are registered in that order; a collection listed after
\* it was processed as well.
C16_Witness ==
  /\ cl.pc = "done"
  /\ cl.listed = <<"default", "Zulu">>
  /\ <<"default", "a2.hyp">> \in cl.failed
  /\ cl.collections = <<[id |-> "default", blueprints |-> <<"bp1", "bp3">>],
                        [id |-> "Zulu", blueprints |-> <<"bp1">>]>>

\* C17 as stated: every collection whose manifest the backend listed is in
\* the result exactly once, also when it has no blueprint.
C17_Original ==
  cl.pc = "done" =>
    \A i \in 1..Len(cl.listed) : Count(cl.listed[i], ResultIds) = 1

\* C17 (amended): every collection whose manifest the backend listed and
\* whose manifest could be read and parsed is in the result exactly once,
\* also when it has no blueprint; a collection whose manifest is absent,
\* cannot be read or does not parse is not in the result.
C17_RegisteredOnce ==
  cl.pc = "done" =>
    \A i \in 1..Len(cl.listed) :
      Count(cl.listed[i], ResultIds) = IF cl.listed[i] \in cl.bad THEN 0 ELSE 1

\* A collection whose only bundle is missing and a collection without
\* bundles are both registered with an empty blueprint list.
C17_Witness ==
  /\ cl.pc = "done"
  /\ cl.listed = <<"zebra", "alpha">>
  /\ cl.collections = <<[id |-> "alpha", blueprints |-> <<>>],
                        [id |-> "zebra", blueprints |-> <<>>]>>

\* The blueprints of the bundles a stored collection holds: the apps of its
\* manifest that are stored and are bundles, in manifest order.
StoredBlueprints(id) ==
  LET ok(app) == InSeq(app, StoredApps(id)) /\ ImportedApp(app).ok
      kept == SelectSeq(Manifest(id).apps, ok)
  IN [i \in 1..Len(kept) |-> ImportedApp(kept[i]).blueprint]

\* The stored collections whose manifest parses.
Loadable(w) == {id \in w : Manifest(id).valid}

\* C26: for the same stored collections the loader returns the same list on
\* the local backend as on the object store: when no backend request fails,
\* the result holds exactly the stored collections whose manifest parses,
\* each with the blueprints of its stored bundles, in sorted order,
\* whichever backend is selected.
C26_SameOnBothBackends ==
  cl.pc = "done" /\ faults = 0 =>
    /\ Len(cl.collections) = Cardinality(Loadable(cworld))
    /\ \A id \in Loadable(cworld) :
         \E k \in 1..Len(cl.collections) :
           cl.collections[k] = [id |-> id, blueprints |-> StoredBlueprints(id)]
    /\ cl.collections = SortCollections(cl.collections)

----------------------------------------------------------------------------
(* Startup: StorageManager.initialize(), the adapters' initialize() with the *)
(* seeding of the built-in content, and the server's startup sequence.       *)

NotInitialized == "Storage not initialized"
BucketRequired == "S3_BUCKET_NAME is required when STORAGE_TYPE=aws"
UnsupportedType == "Unsupported storage type"

\* process.env.STORAGE_TYPE: not set, or one of these values.
StorageTypes == {"unset", "local", "aws", "gcs"}

\* process.env.STORAGE_TYPE || 'local'
StorageType(e) == IF e.storageType = "unset" THEN "local" ELSE e.storageType

\* Mutant: an unknown storage kind falls back to the local backend.
MutSelectFallback(e) ==
  CASE StorageType(e) = "aws" /\ ~e.bucket ->
         [rejected |-> TRUE, error |-> BucketRequired, storage |-> "null", isS3 |-> FALSE]
    [] StorageType(e) = "aws" /\ e.bucket ->
         [rejected |-> FALSE, error |-> "", storage |-> "s3", isS3 |-> TRUE]
    [] OTHER ->
         [rejected |-> FALSE, error |-> "", storage |-> "local", isS3 |-> FALSE]

\* initialize(), up to the first await: the adapter is constructed and
\* assigned to this.storage, or the call throws.
SelectBackend(e) ==
  CASE StorageType(e) = "aws" /\ ~e.bucket ->
         [rejected |-> TRUE, error |-> BucketRequired, storage |-> "null", isS3 |-> FALSE]
    [] StorageType(e) = "aws" /\ e.bucket ->
         [rejected |-> FALSE, error |-> "", storage |-> "s3", isS3 |-> TRUE]
    [] StorageType(e) = "local" ->
         [rejected |-> FALSE, error |-> "", storage |-> "local", isS3 |-> FALSE]
    [] OTHER ->
         [rejected |-> TRUE, error |-> UnsupportedType, storage |-> "null", isS3 |-> FALSE]

\* The environments of the process; the bucket name matters for aws only.
Environments ==
  {e \in [storageType : StorageTypes, bucket : BOOLEAN] :
     e.bucket => e.storageType = "aws"}

\* The built-in files: two of the assets directory, one of the collections
\* directory, in the order the directories are copied.
SeedAssets == <<"h1.glb", "logo.png">>
SeedCollections == <<"default">>
SeedFiles == SeedAssets \o SeedCollections
IsSeedCollection(f) == InSeq(f, SeedCollections)

\* The bytes of a built-in file.
BundledData == 1

\* The object the backend holds under the name of a built-in file.
Held(f) ==
  IF IsSeedCollection(f)
  THEN (IF f \in cworld THEN [data |-> BundledData, mtime |-> 0] ELSE NoObject)
  ELSE assets[f]

\* FileStorage.loadStorageData: the document, or {} on any failure.
FsLoadStorageData(doc, resp) == IF resp = "ok" THEN Return(doc) ELSE Return(EmptyDoc)

\* AwsS3Storage.loadStorageData: the document, {} when the key does not
\* exist, and any other error is thrown.
S3LoadStorageData(doc, resp) ==
  CASE resp = "ok"       -> Return(doc)
    [] resp = "notfound" -> Return(EmptyDoc)
    [] OTHER             -> Raise(BackendError)

\* Mutant: a failure to load the document makes initialize() reject.
MutLoadFatal(r) ==
  IF r.raised
  THEN [storageData |-> EmptyDoc, storageLoaded |-> FALSE, rejected |-> TRUE]
  ELSE [storageData |-> r.value, storageLoaded |-> TRUE, rejected |-> FALSE]

\* initStorageData(): what the manager holds after loadStorageData answered r.
InitStorageDataOutcome(r) ==
  IF r.raised
  THEN [storageData |-> EmptyDoc, storageLoaded |-> TRUE, rejected |-> FALSE]
  ELSE [storageData |-> r.value, storageLoaded |-> TRUE, rejected |-> FALSE]

\* The manager after its constructor.
NewManager == [storage |-> "null", isS3 |-> FALSE, pc |-> "new", todo |-> <<>>]

\* The capabilities called while initialize() has not resolved: the queries
\* of the facade, the presigned-URL methods, get and set.
FacadeQueries == {"fileExists", "getPublicUrl", "listCollections"}
PresignedOps == {"getPresignedUploadUrl"}
KVOps == {"get", "set"}
Capabilities == FacadeQueries \cup PresignedOps \cup KVOps

\* What a capability does with the manager m: whether it throws, and whether
\* the adapter's method is invoked.
Guarded(m, loaded, op) ==
  CASE op \in KVOps ->
         [raised |-> FALSE, error |-> "", delegated |-> FALSE]
    [] op \notin KVOps /\ m.storage = "null" ->
         [raised |-> TRUE, error |-> NotInitialized, delegated |-> FALSE]
    [] op \in PresignedOps /\ m.storage # "null" /\ ~m.isS3 ->
         [raised |-> TRUE, error |-> S3Only, delegated |-> FALSE]
    [] OTHER ->
         [raised |-> FALSE, error |-> "", delegated |-> TRUE]

\* Where initialize() is when a capability is called: not called yet, or
\* called and not settled.
Phase(m) == IF m.pc = "new" THEN "before" ELSE "during"

BootIdle ==
  /\ env = [storageType |-> "unset", bucket |-> FALSE]
  /\ mgr = NewManager
  /\ startup = "starting"
  /\ calls = <<>>
  /\ seeded = <<>>
  /\ boots = 0

\* The process starts: the environment is fixed, the backend holds none, some
\* or all of the built-in files (one of them with other bytes), and
\* storage.json holds an earlier document or none.
BootInit ==
  /\ env \in Environments
  /\ mgr = NewManager
  /\ startup = "starting"
  /\ calls = <<>>
  /\ seeded = <<>>
  /\ boots = 1
  /\ backend = "local"
  /\ \E h1 \in {0, BundledData}, logo \in {0, BundledData, 2} :
       assets = [n \in AssetNames |->
                   CASE n = "h1.glb" /\ h1 # 0     -> [data |-> h1, mtime |-> 0]
                     [] n = "logo.png" /\ logo # 0 -> [data |-> logo, mtime |-> 0]
                     [] OTHER                      -> NoObject]
  /\ reqs = <<>>
  /\ wclock = 0
  /\ listing = NoListing
  /\ cworld \in {{}, {"default"}}
  /\ cl = IdleLoader
  /\ faults = 0
  /\ LoaderIdle /\ KVInit /\ NamesIdle /\ OpsIdle

bootRest == <<lvars, nvars, ovars, cl, faults, reqs, listing, now, throttle, inflight,
              persisted, sets, burst, env>>

\* storageManager.initialize() is called and runs to its first await.
Initialize ==
  /\ mgr.pc = "new"
  /\ LET sel == SelectBackend(env)
     IN /\ mgr' = [mgr EXCEPT !.storage = sel.storage, !.isS3 = sel.isS3,
                              !.pc = CASE sel.rejected -> "rejected"
                                       [] ~sel.rejected /\ sel.isS3 -> "probe"
                                       [] OTHER -> "dirs"]
        /\ backend' = IF sel.storage = "s3" THEN "s3" ELSE "local"
  /\ UNCHANGED <<bootRest, assets, wclock, cworld, storageLoaded, storageData, startup,
                 calls, seeded, boots>>

\* AwsS3Storage.initialize(): the connectivity probe answers; a failure is
\* thrown on as 'S3 initialization failed'.
S3Probe(resp) ==
  /\ mgr.pc = "probe"
  /\ mgr' = IF resp = "ok" THEN [mgr EXCEPT !.pc = "head", !.todo = SeedFiles]
            ELSE [mgr EXCEPT !.pc = "rejected"]
  /\ UNCHANGED <<bootRest, backend, assets, wclock, cworld, storageLoaded, storageData,
                 startup, calls, seeded, boots>>

\* The seeding is past the file at the head of todo.
NextSeed(after) ==
  IF Len(mgr.todo) > 1 THEN [mgr EXCEPT !.pc = after, !.todo = Tail(mgr.todo)]
  ELSE [mgr EXCEPT !.pc = "load", !.todo = <<>>]

SeedEntry(failed, wrote) ==
  [boot |-> boots, file |-> Head(mgr.todo), present |-> Present(Held(Head(mgr.todo))),
   failed |-> failed, wrote |-> wrote]

\* The built-in file f is written to the backend.
SeedWrite(f) ==
  IF IsSeedCollection(f)
  THEN /\ cworld' = cworld \cup {f}
       /\ wclock' = wclock + 1
       /\ UNCHANGED assets
  ELSE /\ assets' = [assets EXCEPT ![f] = [data |-> BundledData, mtime |-> wclock + 1]]
       /\ wclock' = wclock + 1
       /\ UNCHANGED cworld

\* copyDirectoryToS3: HeadObject for the next built-in file answers. The
\* file is skipped when the object exists and when the request fails with
\* anything but NotFound.
S3SeedHead(resp) ==
  /\ mgr.pc = "head"
  /\ resp \in Responses(Present(Held(Head(mgr.todo))))
  /\ IF resp = "notfound"
     THEN /\ mgr' = [mgr EXCEPT !.pc = "put"]
          /\ UNCHANGED seeded
     ELSE /\ mgr' = NextSeed("head")
          /\ seeded' = Append(seeded, SeedEntry(resp = "error", FALSE))
  /\ UNCHANGED <<bootRest, backend, assets, wclock, cworld, storageLoaded, storageData,
                 startup, calls, boots>>

\* copyDirectoryToS3: the file is read and PutObject answers; a failure is
\* logged and the next file is processed.
S3SeedPut(resp) ==
  /\ mgr.pc = "put"
  /\ mgr' = NextSeed("head")
  /\ seeded' = Append(seeded, SeedEntry(resp = "error", resp = "ok"))
  /\ IF resp = "ok" THEN SeedWrite(Head(mgr.todo)) ELSE UNCHANGED <<assets, wclock, cworld>>
  /\ UNCHANGED <<bootRest, backend, storageLoaded, storageData, startup, calls, boots>>

\* FileStorage.initialize(): the three ensureDir calls answer.
FsEnsureDirs(resp) ==
  /\ mgr.pc = "dirs"
  /\ mgr' = IF resp = "ok" THEN [mgr EXCEPT !.pc = "copy", !.todo = SeedFiles]
            ELSE [mgr EXCEPT !.pc = "rejected"]
  /\ UNCHANGED <<bootRest, backend, assets, wclock, cworld, storageLoaded, storageData,
                 startup, calls, seeded, boots>>

\* FileStorage.initialize(): fs.copy of a built-in directory copies the next
\* file over whatever the destination holds; a failure ends fs.copy and is
\* thrown out of initialize().
FsCopyFile(resp) ==
  /\ mgr.pc = "copy"
  /\ seeded' = Append(seeded, SeedEntry(resp = "error", resp = "ok"))
  /\ IF resp = "ok"
     THEN /\ SeedWrite(Head(mgr.todo))
          /\ mgr' = NextSeed("copy")
     ELSE /\ UNCHANGED <<assets, wclock, cworld>>
          /\ mgr' = [mgr EXCEPT !.pc = "rejected"]
  /\ UNCHANGED <<bootRest, backend, storageLoaded, storageData, startup, calls, boots>>

\* initStorageData(): loadStorageData answers and initialize() settles.
LoadStorageData(resp) ==
  /\ mgr.pc = "load"
  /\ resp \in Responses(TRUE) \cup (IF persisted = EmptyDoc THEN {"notfound"} ELSE {})
  /\ LET r == IF mgr.isS3 THEN S3LoadStorageData(persisted, resp)
              ELSE FsLoadStorageData(persisted, resp)
         out == InitStorageDataOutcome(r)
     IN /\ storageData' = out.storageData
        /\ storageLoaded' = out.storageLoaded
        /\ mgr' = [mgr EXCEPT !.pc = IF out.rejected THEN "rejected" ELSE "ready"]
  /\ UNCHANGED <<bootRest, backend, assets, wclock, cworld, startup, calls, seeded, boots>>

\* A capability is called while initialize() has not settled.
Call(op) ==
  /\ mgr.pc \notin {"ready", "rejected"}
  /\ Len(calls) < MaxCalls
  /\ LET g == Guarded(mgr, storageLoaded, op)
     IN calls' = Append(calls, [op |-> op, phase |-> Phase(mgr), raised |-> g.raised,
                                error |-> g.error, delegated |-> g.delegated])
  /\ UNCHANGED <<bootRest, backend, assets, wclock, cworld, storageLoaded, storageData,
                 startup, mgr, seeded, boots>>

\* The server's startup: initialize() resolved and initCollections() is
\* called.
StartCollections ==
  /\ startup = "starting"
  /\ mgr.pc = "ready"
  /\ startup' = "collections"
  /\ UNCHANGED <<bootRest, backend, assets, wclock, cworld, storageLoaded, storageData,
                 mgr, calls, seeded, boots>>

\* initCollections() returned and fastify.listen() is called.
Listen ==
  /\ startup = "collections"
  /\ startup' = "listening"
  /\ UNCHANGED <<bootRest, backend, assets, wclock, cworld, storageLoaded, storageData,
                 mgr, calls, seeded, boots>>

\* initialize() rejected: the top-level await throws and the process ends.
Abort ==
  /\ startup = "starting"
  /\ mgr.pc = "rejected"
  /\ startup' = "aborted"
  /\ UNCHANGED <<bootRest, backend, assets, wclock, cworld, storageLoaded, storageData,
                 mgr, calls, seeded, boots>>

\* The process ends at any point and is started again: a new manager over the
\* same backend.
Restart ==
  /\ boots < MaxBoots
  /\ boots' = boots + 1
  /\ mgr' = NewManager
  /\ startup' = "starting"
  /\ storageLoaded' = FALSE
  /\ storageData' = EmptyDoc
  /\ calls' = <<>>
  /\ seeded' = <<>>
  /\ UNCHANGED <<bootRest, backend, assets, wclock, cworld>>

BootNext ==
  \/ Initialize
  \/ \E resp \in {"ok", "error"} : S3Probe(resp)
  \/ \E resp \in {"ok", "notfound", "error"} : S3SeedHead(resp)
  \/ \E resp \in {"ok", "error"} : S3SeedPut(resp)
  \/ \E resp \in {"ok", "error"} : FsEnsureDirs(resp)
  \/ \E resp \in {"ok", "error"} : FsCopyFile(resp)
  \/ \E resp \in {"ok", "notfound", "error"} : LoadStorageData(resp)
  \/ \E op \in Capabilities : Call(op)
  \/ StartCollections
  \/ Listen
  \/ Abort
  \/ Restart

----------------------------------------------------------------------------
(* Startup: claims *)

\* C21: every capability called before initialize() has completed the
\* backend selection, also while initialize() is in progress, fails with
\* 'Storage not initialized' and performs no backend operation.
C21_NotInitializedBeforeReady ==
  \A i \in 1..Len(calls) :
    /\ calls[i].raised
    /\ calls[i].error = NotInitialized
    /\ ~calls[i].delegated

\* The environments for which the backend cannot be selected: aws without a
\* bucket name, or a storage kind that is neither local nor aws.
BadEnvironment(e) ==
  \/ e.storageType = "aws" /\ ~e.bucket
  \/ e.storageType \notin {"unset", "local", "aws"}

\* The startup has not gone past the await of initialize().
NotStarted == startup \in {"starting", "aborted"}

\* C22: a failure to initialize the backend is fatal. With a missing bucket
\* name or an unknown storage kind, and after a failed connectivity probe,
\* initialize() rejects: the rejection stays until the process is started
\* again, the key-value document is not marked loaded, and the startup
\* neither loads the collections nor listens.
C22_InitFailureFatal ==
  /\ [](BadEnvironment(env) => mgr.pc \in {"new", "rejected"})
  /\ [](mgr.pc = "rejected" => ~storageLoaded /\ NotStarted)
  /\ [](~NotStarted => mgr.pc = "ready")
  /\ [][(S3Probe("error") => mgr'.pc = "rejected")
        /\ (mgr.pc = "new" /\ mgr'.pc # "new" /\ BadEnvironment(env)
              => mgr'.pc = "rejected")
        /\ (mgr.pc = "rejected" /\ boots' = boots => mgr'.pc = "rejected")]_vars

\* The probe of a configured bucket failed and the process ended.
C22_Witness ==
  /\ startup = "aborted"
  /\ mgr.pc = "rejected"
  /\ mgr.isS3
  /\ ~storageLoaded

\* C23: a failure to load the key-value document at startup is not fatal:
\* initialize() completes, the document is empty and the store is marked
\* loaded.
C23_LoadFailureNotFatal ==
  [][LoadStorageData("error") =>
       mgr'.pc = "ready" /\ storageData' = EmptyDoc /\ storageLoaded']_vars

\* The bucket holds a document, loading it failed, and the server listens
\* with an empty document marked loaded.
C23_Witness ==
  /\ mgr.isS3
  /\ persisted # EmptyDoc
  /\ storageData = EmptyDoc
  /\ storageLoaded
  /\ startup = "listening"

\* C24: seeding writes a built-in file if and only if the backend holds no
\* object with that name; an object that exists is never overwritten, on
\* both backends. (A file whose request failed is not counted as missing
\* its write.)
C24_SeedOnlyMissing ==
  \A i \in 1..Len(seeded) :
    /\ seeded[i].wrote => ~seeded[i].present
    /\ ~seeded[i].present /\ ~seeded[i].failed => seeded[i].wrote

\* The files of this process's seeding that failed.
SeedFailures == {i \in 1..Len(seeded) : seeded[i].failed}

\* C25: a failure to copy one built-in file is skipped: the remaining
\* built-in files are still processed and initialize() still succeeds, on
\* both backends.
C25_SeedFailureSkipped ==
  SeedFailures # {} =>
    /\ mgr.pc # "rejected"
    /\ (mgr.pc \in {"load", "ready"} => Len(seeded) = Len(SeedFiles))

----------------------------------------------------------------------------
(* Storage facade and endpoints: error propagation *)

\* C27: no error of the object-store backend reaches a caller of the
\* Storage Manager unchanged: a failure of fileExists, getFileStats or
\* readCollection that reaches the caller is an error the manager made, not
\* the error the backend raised.
C27_NoRawBackendError ==
  \A i \in 1..Len(ops) :
    ops[i].op \in Queries /\ ops[i].ret.raised =>
      ops[i].ret.error \in {NotInitialized, S3Only}

Endpoints == {"POST /api/upload", "GET /api/upload-check"}

\* The replies of the two endpoints to a backend failure are generic: status
\* 500 with the endpoint's fixed text; a successful upload replies with the
\* public URL of the derived name whether the object was written by this
\* request or was already there.
GenericFailures ==
  \A i \in 1..Len(ops) :
    ops[i].op \in Endpoints =>
      /\ ops[i].reply.code \in {200, 500}
      /\ ops[i].reply.code = 500 =>
           /\ ops[i].reply.error \in {UploadFailed, CheckFailed}
           /\ ops[i].reply.url = Null
      /\ ops[i].reply.code = 200 /\ ops[i].op = "POST /api/upload" =>
           /\ ops[i].reply.url = Str(PublicUrl(backend, ops[i].name[1]))
           /\ ~ops[i].gone
      /\ ops[i].reply.code = 200 /\ ops[i].op = "GET /api/upload-check" =>
           ops[i].reply.exists = ops[i].ret.value

\* C28 as stated: in addition to the above, a successful existence check
\* replies with the public URL of the name.
C28_Original ==
  /\ GenericFailures
  /\ \A i \in 1..Len(ops) :
       ops[i].op = "GET /api/upload-check" /\ ops[i].reply.code = 200 =>
         ops[i].reply.url = Str(PublicUrl(backend, ops[i].name[1]))

\* C28 (amended): in addition to the above, a successful existence check
\* replies with the public URL of the name when the object exists and with
\* null when it does not.
C28_EndpointReplies ==
  /\ GenericFailures
  /\ \A i \in 1..Len(ops) :
       ops[i].op = "GET /api/upload-check" /\ ops[i].reply.code = 200 =>
         ops[i].reply.url = IF ops[i].reply.exists.v
                            THEN Str(PublicUrl(backend, ops[i].name[1]))
                            ELSE Null

\* An upload of a name the bucket already holds replies with its URL and
\* writes nothing; an existence check of a missing name replies false with
\* no URL.
C28_Witness ==
  /\ backend = "s3"
  /\ Len(ops) = 2
  /\ ops[1].op = "POST /api/upload" /\ ops[1].reply.code = 200 /\ ~ops[1].wrote
  /\ ops[2].op = "GET /api/upload-check"
  /\ ops[2].reply.exists = Bool(FALSE) /\ ops[2].reply.url = Null

----------------------------------------------------------------------------
(* Key-value document: the flush under fair scheduling *)

\* Time goes on while the timer of the throttle is pending, also past the
\* last tick at which the environment acts.
LateTick ==
  /\ now >= MaxTime
  /\ throttle.timer
  /\ now < throttle.due
  /\ now' = now + 1
  /\ UNCHANGED <<lvars, svars, xvars, storageLoaded, storageData, throttle, inflight, persisted,
                 sets, burst>>

KVLiveNext == KVNext \/ LateTick

\* The event loop runs every timer that is due and every backend request
\* settles, with success or with an error.
KVFairness ==
  /\ WF_vars(Tick \/ LateTick)
  /\ WF_vars(TimerExpired)
  /\ WF_vars(\E doc \in Docs, ok \in BOOLEAN : SaveDone(doc, ok))

\* C29: after a finite sequence of accepted set calls followed by no
\* further mutation, the persisted document eventually equals the document
\* in memory and stays equal to it.
C29_FlushGuarantee ==
  <>[](throttle.lastCallTime # NoTime => persisted = storageData)

\* C30: when persist writes overlap, the document that ends up stored is
\* the one of the write that started last: once the write of the document
\* in memory has ended and that document is stored, and the throttle holds
\* no call that is still to be written, no write that ends replaces the
\* stored document by an older snapshot.
C30_LastWriteWins ==
  [][(/\ storageLoaded
      /\ ~throttle.pending
      /\ storageData \notin inflight
      /\ persisted = storageData
      /\ sets' = sets)
       => persisted' = storageData']_vars

----------------------------------------------------------------------------
(* Key-value document: forceStorageDataPersist() and graceful shutdown *)

\* Mutant: persistStorageData() without its storageLoaded guard.
MutPersistUnguarded(loaded, th, doc) == [started |-> TRUE, doc |-> doc]

\* persistStorageData(), as forceStorageDataPersist() calls it: nothing
\* before the document is loaded, otherwise storage.saveStorageData is
\* called with the document as it is now.
PersistStorageData(loaded, th, doc) == [started |-> loaded, doc |-> doc]

\* The server is up: the backend is selected and the key-value document is
\* about to be loaded; storage.json holds an earlier document or none.
ShutInit ==
  /\ LoaderIdle /\ StoreIdle /\ KVInit /\ NamesIdle /\ OpsIdle /\ CollIdle
  /\ env = [storageType |-> "unset", bucket |-> FALSE]
  /\ mgr = [NewManager EXCEPT !.storage = "local", !.pc = "load"]
  /\ startup = "listening"
  /\ calls = <<>>
  /\ seeded = <<>>
  /\ boots = 1

\* forceStorageDataPersist()
ForcePersist ==
  /\ startup # "exited"
  /\ LET res == PersistStorageData(storageLoaded, throttle, storageData)
     IN inflight' = IF res.started THEN inflight \cup {res.doc} ELSE inflight
  /\ UNCHANGED <<lvars, svars, xvars, now, storageLoaded, storageData, throttle, persisted,
                 sets, burst>>

\* SIGINT or SIGTERM arrives: the handler calls fastify.close() and awaits
\* it.
Signal ==
  /\ startup = "listening"
  /\ startup' = "closing"
  /\ UNCHANGED <<lvars, svars, kvars, nvars, ovars, cvars, env, mgr, calls, seeded, boots>>

\* process.exit(0): the timers and the requests of the process end with it;
\* a write whose request was sent may still be applied by the backend.
Exit ==
  /\ startup = "closing"
  /\ startup' = "exited"
  /\ persisted' \in {persisted} \cup inflight
  /\ inflight' = {}
  /\ UNCHANGED <<lvars, svars, nvars, ovars, cvars, env, mgr, calls, seeded, boots, now,
                 storageLoaded, storageData, throttle, sets, burst>>

\* The key-value layer works while the process lives; no set call is taken
\* once the signal has arrived.
ShutNext ==
  \/ startup = "listening" /\ KVNext /\ sets' <= MaxShutSets /\ now' <= MaxShutTime
  \/ startup = "closing" /\ KVNext /\ sets' = sets /\ now' <= MaxShutTime
  \/ ForcePersist
  \/ Signal
  \/ Exit

\* C31: forceStorageDataPersist() hands the document in memory to the
\* backend at once, whatever the state of the throttle (idle, or with a call
\* pending for the trailing edge), provided the document has been loaded;
\* before the document is loaded it starts no write. The throttle is left
\* as it was.
C31_ForcePersist ==
  [][ForcePersist =>
       /\ inflight' = IF storageLoaded THEN inflight \cup {storageData} ELSE inflight
       /\ throttle' = throttle
       /\ storageData' = storageData]_vars

\* Two set calls were made: the first was written at the leading edge, the
\* second is held by the throttle for the trailing edge, and its document
\* is already on its way to the backend.
C31_Witness ==
  /\ sets = 2
  /\ throttle.pending /\ throttle.timer
  /\ burst.open /\ burst.doc # storageData
  /\ storageData \in inflight

\* C32: on a graceful shutdown every set accepted before the signal is
\* persisted before the process exits: a call the throttle still held for
\* its trailing edge when the process exited is not lost, the backend holds
\* the document of memory.
C32_ShutdownFlushes ==
  (startup = "exited" /\ throttle.pending) => persisted = storageData

----------------------------------------------------------------------------
(* ServerLoader.loadModel(url) and its built-in fallback *)

\* Model references: hash-named .glb files (the second has the digits 404
\* in its hash, the third is an emote), a hash-named file with another
\* extension, and a built-in file with a plain name.
Hash404Ref == "asset://<hash64 with 404>.glb"
EmoteHashRef == "asset://emote/<hash64>.glb"
HashVrmRef == "asset://<hash64>.vrm"
EmoteIdleRef == "asset://emote-idle.glb"
ModelRefs == {HashRef, Hash404Ref, EmoteHashRef, HashVrmRef, PlainRef}

\* this.world.resolveURL(url, true): the asset under the assets location.
ResolveURL(ref) == [base |-> "assets", name |-> ref]

\* resolvedUrl.match(/[a-f0-9]{64}\.glb/)
MatchesHashGlb(u) == u.name \in {HashRef, Hash404Ref, EmoteHashRef}

\* resolvedUrl.includes('.glb')
IncludesGlb(u) == u.name # HashVrmRef

\* How fetchArrayBuffer can fail: a response that is not ok, an XML body, a
\* network failure (remote), a failed fs.readFile (local).
FetchFailures == {"404", "403", "500", "xml", "network", "ENOENT"}

\* error.message of a failure of fetchArrayBuffer(u): the HTTP status and the
\* url, the url alone, or the path; a network failure names neither.
NoError == [what |-> "none", url |-> "none"]
FetchError(o, u) == [what |-> o, url |-> IF o = "network" THEN "none" ELSE u.name]
ParseError == [what |-> "parse", url |-> "none"]

\* error.message.includes(digits)
MessageIncludes(msg, digits) ==
  \/ msg.what = digits
  \/ digits = "404" /\ msg.url = Hash404Ref

\* resolvedUrl.includes('.glb') && error.message.includes('404') ||
\* error.message.includes('403')
FallbackCondition(u, msg) ==
  (IncludesGlb(u) /\ MessageIncludes(msg, "404")) \/ MessageIncludes(msg, "403")

NoFallback == [base |-> "null", name |-> "null"]

\* tryGetBuiltInFallback(originalUrl, resolvedUrl)
TryGetBuiltInFallback(ref, u) ==
  IF ~MatchesHashGlb(u) THEN NoFallback
  ELSE IF ref = EmoteHashRef THEN ResolveURL(EmoteIdleRef)
  ELSE ResolveURL(PlainRef)

\* Mutant: the error of the fallback is the one thrown.
MutRaiseFallbackError(original, fallbackError) == fallbackError

\* `throw error` after the inner try/catch: the error of the first attempt.
Raised(original, fallbackError) == original

\* The catch block of loadModel for call c and the error msg.
CatchModelError(c, msg) ==
  LET u == ResolveURL(c.ref)
      fb == IF FallbackCondition(u, msg) THEN TryGetBuiltInFallback(c.ref, u) ELSE NoFallback
  IN IF fb # NoFallback /\ fb # u
     THEN [c EXCEPT !.pc = "fallback-fetch", !.err = msg, !.fb = fb, !.tries = @ + 1]
     ELSE [c EXCEPT !.pc = "rejected", !.err = msg, !.raised = msg]

\* The inner catch: the fallback failed with msg.
CatchFallbackError(c, msg) ==
  [c EXCEPT !.pc = "rejected", !.fberr = msg, !.raised = Raised(c.err, msg)]

\* loadModel(url) is called: fetchArrayBuffer(resolvedUrl) starts.
LoadModel(ref) ==
  /\ requests < MaxModelLoads
  /\ requests' = requests + 1
  /\ pipes' = Append(pipes, [ref |-> ref, pc |-> "fetch", err |-> NoError, fb |-> NoFallback,
                             fberr |-> NoError, raised |-> NoError, tries |-> 0,
                             gltf |-> NoFallback])
  /\ UNCHANGED <<svars, kvars, xvars, variant, focus, promises, results, files, preloadItems,
                 preloader, callers, gen, batch, executed, readyCount, destroyed>>

modelRest == <<svars, kvars, xvars, variant, focus, promises, results, files, preloadItems,
               preloader, callers, gen, batch, executed, requests, readyCount, destroyed>>

\* fetchArrayBuffer(resolvedUrl) settles.
ModelFetchDone(i, o) ==
  /\ pipes[i].pc = "fetch"
  /\ pipes' = [pipes EXCEPT ![i] =
                 IF o = "ok" THEN [pipes[i] EXCEPT !.pc = "parse"]
                 ELSE CatchModelError(pipes[i], FetchError(o, ResolveURL(pipes[i].ref)))]
  /\ UNCHANGED modelRest

\* loader.parse(arrayBuffer, '', resolve, reject) settles.
ModelParseDone(i, ok) ==
  /\ pipes[i].pc = "parse"
  /\ pipes' = [pipes EXCEPT ![i] =
                 IF ok THEN [pipes[i] EXCEPT !.pc = "resolved",
                                             !.gltf = ResolveURL(pipes[i].ref)]
                 ELSE CatchModelError(pipes[i], ParseError)]
  /\ UNCHANGED modelRest

\* fetchArrayBuffer(fallbackUrl) settles.
FallbackFetchDone(i, o) ==
  /\ pipes[i].pc = "fallback-fetch"
  /\ pipes' = [pipes EXCEPT ![i] =
                 IF o = "ok" THEN [pipes[i] EXCEPT !.pc = "fallback-parse"]
                 ELSE CatchFallbackError(pipes[i], FetchError(o, pipes[i].fb))]
  /\ UNCHANGED modelRest

\* The parse of the fallback settles.
FallbackParseDone(i, ok) ==
  /\ pipes[i].pc = "fallback-parse"
  /\ pipes' = [pipes EXCEPT ![i] =
                 IF ok THEN [pipes[i] EXCEPT !.pc = "resolved", !.gltf = pipes[i].fb]
                 ELSE CatchFallbackError(pipes[i], ParseError)]
  /\ UNCHANGED modelRest

ModelNext ==
  \/ \E ref \in ModelRefs : LoadModel(ref)
  \/ \E i \in 1..Len(pipes), o \in {"ok"} \cup FetchFailures : ModelFetchDone(i, o)
  \/ \E i \in 1..Len(pipes), ok \in BOOLEAN : ModelParseDone(i, ok)
  \/ \E i \in 1..Len(pipes), o \in {"ok"} \cup FetchFailures : FallbackFetchDone(i, o)
  \/ \E i \in 1..Len(pipes), ok \in BOOLEAN : FallbackParseDone(i, ok)

\* C36 as stated: the fallback is attempted only when the failure is a
\* not-found status and the resolved reference is named by a 64-hex hash with
\* the .glb extension; after any other failure, or for another reference,
\* no fallback fetch is made and the original error is raised.
C36_FallbackOnlyOnNotFound ==
  \A i \in 1..Len(pipes) :
    LET c == pipes[i]
    IN /\ c.tries > 0 => (c.err.what = "404" /\ MatchesHashGlb(ResolveURL(c.ref)))
       /\ (c.pc = "rejected" /\ c.tries = 0) => c.raised = c.err

\* C37: the fallback is attempted at most once per failed model load; when
\* the fetch or the parse of the fallback fails as well, the call is
\* rejected with the error of the first attempt, not with the fallback's.
C37_FallbackOnce ==
  \A i \in 1..Len(pipes) :
    LET c == pipes[i]
    IN /\ c.tries <= 1
       /\ (c.pc = "rejected" /\ c.tries = 1) => (c.raised = c.err /\ c.err # NoError)
       /\ c.pc = "rejected" => c.raised.what # "none"

\* A load whose fallback failed too, with another error than the first
\* attempt's, was rejected.
C37_Witness ==
  \E i \in 1..Len(pipes) :
    /\ pipes[i].pc = "rejected"
    /\ pipes[i].tries = 1
    /\ pipes[i].fberr # NoError
    /\ pipes[i].fberr # pipes[i].err

----------------------------------------------------------------------------
(* Locators: uploadFile, getPublicUrl, getAssetsUrl *)

\* A string is the sequence of its pieces; "/" is a piece of its own, so two
\* strings are equal exactly when their sequences are.
Slash == <<"/">>
Unset == <<>>

\* `a || b` on strings: the empty string and undefined are falsy.
OrElse(a, b) == IF a = Unset THEN b ELSE a

\* s.replace(/\/$/, '') and `s.endsWith('/') ? s.slice(0, -1) : s`
StripSlash(str) ==
  IF Len(str) > 0 /\ str[Len(str)] = "/" THEN SubSeq(str, 1, Len(str) - 1) ELSE str

\* process.env as far as the locators read it.
UrlConfigs ==
  [storageType : {"local", "aws"},
   cloudfront : {Unset, <<"https://cdn.example">>, <<"https://cdn.example", "/">>},
   prefix : {Unset, <<"assets", "/">>, <<"files">>},
   publicAssetsUrl : {Unset, <<"https://host", "/", "assets">>}]

UrlEnvironments ==
  {c \in UrlConfigs :
     IF c.storageType = "local" THEN c.cloudfront = Unset /\ c.prefix = Unset
     ELSE c.publicAssetsUrl = Unset}

UrlNames == {"a.glb", "b.png"}

\* The fields the adapters' constructors keep (StorageManager.initialize
\* passes assetsUrl: '/assets/' to FileStorage).
AssetsPrefix(c) == OrElse(c.prefix, <<"assets", "/">>)
LocalAssetsUrl == OrElse(<<"/", "assets", "/">>, <<"/", "assets">>)

\* AwsS3Storage.getS3BaseUrl()
GetS3BaseUrl == <<"https://bucket.s3.region.amazonaws.com">>

\* AwsS3Storage.getAssetsBaseUrl()
GetAssetsBaseUrl(c) ==
  IF c.cloudfront # Unset THEN StripSlash(c.cloudfront) ELSE GetS3BaseUrl

\* The locator uploadFile(filename, ...) returns.
UploadUrl(c, n) ==
  IF c.storageType = "aws"
  THEN GetS3BaseUrl \o Slash \o AssetsPrefix(c) \o <<n>>
  ELSE LocalAssetsUrl \o Slash \o <<n>>

\* getPublicUrl(filename) of the adapter the manager selected.
GetPublicUrl(c, n) ==
  IF c.storageType = "aws"
  THEN GetAssetsBaseUrl(c) \o Slash \o StripSlash(AssetsPrefix(c)) \o Slash \o <<n>>
  ELSE LocalAssetsUrl \o Slash \o <<n>>

\* StorageManager.getAssetsUrl()
GetAssetsUrl(c) ==
  IF c.storageType = "aws"
  THEN IF c.cloudfront # Unset
       THEN StripSlash(c.cloudfront) \o Slash \o StripSlash(AssetsPrefix(c))
       ELSE GetS3BaseUrl \o Slash \o StripSlash(AssetsPrefix(c))
  ELSE OrElse(c.publicAssetsUrl, <<"/", "assets">>)

\* The address asset://name resolves to.
ResolvedAsset(c, n) == GetAssetsUrl(c) \o Slash \o <<n>>

UrlInit ==
  /\ LoaderIdle /\ StoreIdle /\ KVIdle /\ NamesIdle /\ OpsIdle /\ CollIdle
  /\ env \in UrlEnvironments
  /\ mgr = [NewManager EXCEPT !.pc = "ready"]
  /\ startup = "listening"
  /\ calls = <<>>
  /\ seeded = <<>>
  /\ boots = 1

urlRest == <<lvars, svars, kvars, nvars, cvars, env, mgr, startup, seeded, boots, ops>>

\* uploadFile(name, ...) returns its locator.
UrlUploadFile(n) ==
  /\ Len(calls) < MaxUrlCalls
  /\ calls' = Append(calls, [op |-> "uploadFile", name |-> n, url |-> UploadUrl(env, n)])
  /\ UNCHANGED urlRest

\* getPublicUrl(name)
UrlGetPublicUrl(n) ==
  /\ Len(calls) < MaxUrlCalls
  /\ calls' = Append(calls, [op |-> "getPublicUrl", name |-> n, url |-> GetPublicUrl(env, n)])
  /\ UNCHANGED urlRest

\* The loader resolves asset://name.
UrlResolve(n) ==
  /\ Len(calls) < MaxUrlCalls
  /\ calls' = Append(calls, [op |-> "resolve", name |-> n, url |-> ResolvedAsset(env, n)])
  /\ UNCHANGED urlRest

UrlNext ==
  \/ \E n \in UrlNames : UrlUploadFile(n)
  \/ \E n \in UrlNames : UrlGetPublicUrl(n)
  \/ \E n \in UrlNames : UrlResolve(n)

\* C38 as stated: in every backend configuration the locator uploadFile
\* returned for a name, getPublicUrl of the name and the address asset://name
\* resolves to are one and the same.
C38_OneLocator ==
  \A i, j \in 1..Len(calls) : calls[i].name = calls[j].name => calls[i].url = calls[j].url

----------------------------------------------------------------------------
(* uploadCollection(storageManager, collectionId, manifest, appFiles) *)

\* The collections uploaded: one whose folder the backend holds already and
\* a new one; the manifest and the app files of an upload carry its version.
UpIds == {"default", "alpha"}
UpVersions == {1, 2}
UpAppFiles == {<<>>, <<"a1.hyp">>, <<"b2.hyp">>, <<"a1.hyp", "b2.hyp">>}

\* The bytes of Buffer.from(JSON.stringify(manifest, null, 2)) and of
\* Buffer.from(await appFile.arrayBuffer()).
UpBytes(name, v) == [of |-> name, version |-> v]

\* The bytes stored under a path of the collections namespace (Null when
\* there is no such file).
StoredBytes(fs, path) ==
  IF \E f \in fs : f.path = path THEN (CHOOSE f \in fs : f.path = path).data ELSE Null

\* fs.writeFile / PutObject: the file is created or replaced.
WriteStored(fs, path, data) ==
  {f \in fs : f.path # path} \cup {[path |-> path, data |-> data]}

\* The adapters' uploadCollection(filename, buffer).  FileStorage writes
\* with fs.writeFile, which creates no directory: the write fails when the
\* folder of the collection does not exist.  Either write can fail.
StoreCollectionFile(be, folders, fs, path, data, resp) ==
  IF resp = "error" \/ (be = "local" /\ path[1] \notin folders)
  THEN [raised |-> TRUE, files |-> fs]
  ELSE [raised |-> FALSE, files |-> WriteStored(fs, path, data)]

\* listCollections(): FileStorage answers with the entries of the
\* collections directory, AwsS3Storage with the keys below the prefix.
ListStored(be, folders, fs) ==
  IF be = "local" THEN {<<id>> : id \in folders} ELSE {f.path : f \in fs}

\* The ids a later initCollections() registers: one for each listed file
\* ending in /manifest.json whose manifest can be read.
RegisteredIds(be, folders, fs) ==
  {CollectionId(file) : file \in {l \in ListStored(be, folders, fs) :
                                   EndsWithManifest(l) /\ StoredBytes(fs, l) # Null}}

UpIdle == [pc |-> "idle", uploads |-> 0, id |-> "none", version |-> 0, todo |-> <<>>,
           written |-> {},
           files |-> {[path |-> <<"default", ManifestName>>, data |-> UpBytes(ManifestName, 0)],
                      [path |-> <<"default", "a1.hyp">>, data |-> UpBytes("a1.hyp", 0)]}]

UpInit ==
  /\ LoaderIdle /\ KVIdle /\ NamesIdle /\ OpsIdle /\ BootIdle
  /\ backend \in {"local", "s3"}
  /\ assets = [n \in AssetNames |-> NoObject]
  /\ reqs = <<>>
  /\ wclock = 0
  /\ listing = NoListing
  /\ cworld = {"default"}
  /\ cl = UpIdle
  /\ faults = 0

upRest == <<lvars, kvars, nvars, ovars, bvars, backend, assets, reqs, wclock, listing, faults>>

\* uploadCollection(...) is called: the manifest is about to be written.
UploadCollection(id, v, appFiles) ==
  /\ cl.pc \in {"idle", "done", "raised"}
  /\ cl.uploads < MaxCollUploads
  /\ cl' = [cl EXCEPT !.pc = "manifest", !.uploads = @ + 1, !.id = id, !.version = v,
                      !.todo = appFiles, !.written = {}]
  /\ UNCHANGED <<upRest, cworld>>

\* What the next write of the upload leaves behind.
AfterWrite(c, name, rest, r) ==
  IF r.raised THEN [c EXCEPT !.pc = "raised"]
  ELSE [c EXCEPT !.pc = IF rest = <<>> THEN "done" ELSE "apps",
                 !.todo = rest,
                 !.files = r.files,
                 !.written = @ \cup {<<c.id, name>>}]

\* await storageManager.uploadCollection(`${collectionId}/manifest.json`, ...)
UploadManifest(resp) ==
  /\ cl.pc = "manifest"
  /\ LET r == StoreCollectionFile(backend, cworld, cl.files, <<cl.id, ManifestName>>,
                                  UpBytes(ManifestName, cl.version), resp)
     IN /\ cl' = AfterWrite(cl, ManifestName, cl.todo, r)
        /\ cworld' = IF r.raised THEN cworld ELSE cworld \cup {cl.id}
  /\ UNCHANGED upRest

\* await storageManager.uploadCollection(`${collectionId}/${appFile.name}`, ...)
UploadAppFile(resp) ==
  /\ cl.pc = "apps"
  /\ LET name == Head(cl.todo)
         r == StoreCollectionFile(backend, cworld, cl.files, <<cl.id, name>>,
                                  UpBytes(name, cl.version), resp)
     IN cl' = AfterWrite(cl, name, Tail(cl.todo), r)
  /\ UNCHANGED <<upRest, cworld>>

UpNext ==
  \/ \E id \in UpIds, v \in UpVersions, a \in UpAppFiles : UploadCollection(id, v, a)
  \/ \E resp \in {"ok", "error"} : UploadManifest(resp)
  \/ \E resp \in {"ok", "error"} : UploadAppFile(resp)

\* C39 as stated: after uploadCollection completed without error, on both
\* backends readCollection returns the uploaded bytes for the manifest and
\* for each app file, listCollections lists these files and a later
\* initCollections registers the collection id; after an upload that failed
\* part-way the files it had written remain.
C39_UploadRoundTrip ==
  /\ cl.pc = "done" =>
       /\ \A path \in cl.written :
            /\ StoredBytes(cl.files, path) = UpBytes(path[2], cl.version)
            /\ path \in ListStored(backend, cworld, cl.files)
       /\ cl.id \in RegisteredIds(backend, cworld, cl.files)
  /\ cl.pc = "raised" =>
       \A path \in cl.written : StoredBytes(cl.files, path) = UpBytes(path[2], cl.version)

----------------------------------------------------------------------------
(* Cleanup scripts: clean-world (local) and clean-world-s3 *)

\* A url of the world's database: an asset:// reference to a stored name or
\* a url of another kind.
NoRef == [scheme |-> "none", name |-> "none"]
AssetRef(n) == [scheme |-> "asset://", name |-> n]
OtherUrl == [scheme |-> "https://", name |-> "h1.glb"]

\* url.startsWith('asset://')
StartsWithAsset(u) == u.scheme = "asset://"

\* url.replace('asset://', ''): the stored name, or the url as it is.
WithoutScheme(u) == IF StartsWithAsset(u) THEN u.name ELSE u.scheme \o u.name

\* The rows of the blueprints table: each names one asset in one place.
Blueprint(id, model, script, image, prop) ==
  [id |-> id, model |-> model, script |-> script, image |-> image, prop |-> prop]

BlueprintRows ==
  { Blueprint("b1", AssetRef("h1.glb"), NoRef, NoRef, NoRef),
    Blueprint("b2", NoRef, AssetRef("h2.glb"), NoRef, NoRef),
    Blueprint("b3", NoRef, NoRef, AssetRef("h3.tar.gz"), NoRef),
    Blueprint("b4", NoRef, NoRef, NoRef, AssetRef("h1.glb")),
    Blueprint("b5", AssetRef("bare64"), NoRef, NoRef, OtherUrl) }

\* The files of the assets namespace: hash-named ones, built-in ones and, on
\* the local backend, a directory.
CleanFiles(be) ==
  [n \in AssetNames |->
     IF n = DirName THEN (IF be = "local" THEN Directory ELSE NoObject)
     ELSE [data |-> 1, mtime |-> 0]]

\* The worlds the scripts are run on.
CleanWorlds ==
  [blueprints : {bs \in SUBSET BlueprintRows : Cardinality(bs) \in 1..2},
   entities : {es \in SUBSET {"b1", "b2", "b3", "b4", "b5"} : Cardinality(es) <= 1},
   avatars : {{}, {"h2.glb"}},
   settings : {[image |-> NoRef, model |-> NoRef, avatar |-> NoRef],
               [image |-> AssetRef("h3.tar.gz"), model |-> NoRef, avatar |-> NoRef],
               [image |-> NoRef, model |-> AssetRef("h1.glb"), avatar |-> AssetRef("h2.glb")]}]

\* fileAssets / s3Assets: the files (the objects below the prefix) whose
\* split('.')[0] has 64 characters.
FileAssets(be, fs) ==
  {n \in AssetNames : /\ IF be = "local" THEN IsFile(fs[n]) ELSE Present(fs[n])
                      /\ Len(Split0(Text(n))) = HashLen}

\* Phase 1: the blueprints no entity refers to.
BlueprintsToDelete(bs, es) == {b \in bs : ~\E e \in es : e = b.id}

\* Mutant: blueprintAssets without the urls of the props.
MutBlueprintAssetsNoProps(bs) ==
  {WithoutScheme(b.model) : b \in {x \in bs : StartsWithAsset(x.model)}}
    \cup {WithoutScheme(b.script) : b \in {x \in bs : StartsWithAsset(x.script)}}
    \cup {WithoutScheme(b.image) : b \in {x \in bs : StartsWithAsset(x.image)}}

\* blueprintAssets: model, script and image urls that start with asset://,
\* and every url of the props.
BlueprintAssets(bs) ==
  {WithoutScheme(b.model) : b \in {x \in bs : StartsWithAsset(x.model)}}
    \cup {WithoutScheme(b.script) : b \in {x \in bs : StartsWithAsset(x.script)}}
    \cup {WithoutScheme(b.image) : b \in {x \in bs : StartsWithAsset(x.image)}}
    \cup {WithoutScheme(b.prop) : b \in {x \in bs : x.prop # NoRef}}

\* worldImage, worldModel, worldAvatar
WorldAssets(st) ==
  {WithoutScheme(u) : u \in {v \in {st.image, st.model, st.avatar} : v # NoRef}}

\* Phase 2: filesToDelete / s3FilesToDelete.
FilesToDelete(be, fs, bs, w) ==
  {f \in FileAssets(be, fs) :
     f \notin BlueprintAssets(bs) /\ f \notin w.avatars /\ f \notin WorldAssets(w.settings)}

\* The script has read the database (and, on S3, listed the bucket); DRY_RUN
\* is false, as the scripts have it.
CleanInit ==
  /\ LoaderIdle /\ KVIdle /\ NamesIdle /\ OpsIdle /\ BootIdle
  /\ backend \in {"local", "s3"}
  /\ assets = CleanFiles(backend)
  /\ reqs = <<>>
  /\ wclock = 0
  /\ listing = NoListing
  /\ cworld = {"default"}
  /\ faults = 0
  /\ \E w \in CleanWorlds :
       cl = [pc |-> "phase1", world |-> w, blueprints |-> w.blueprints,
             table |-> w.blueprints, todo |-> BlueprintsToDelete(w.blueprints, w.entities),
             removed |-> {}]

cleanRest == <<lvars, kvars, nvars, ovars, bvars, backend, reqs, wclock, listing, cworld,
               faults>>

\* Phase 1, one blueprint: blueprints.delete(blueprint) and the row is
\* deleted; a rejected query ends the script.
DeleteBlueprint(b, resp) ==
  /\ cl.pc = "phase1"
  /\ b \in cl.todo
  /\ cl' = IF resp = "ok"
           THEN [cl EXCEPT !.blueprints = @ \ {b}, !.table = @ \ {b}, !.todo = @ \ {b}]
           ELSE [cl EXCEPT !.blueprints = @ \ {b}, !.pc = "exited"]
  /\ UNCHANGED <<cleanRest, assets>>

\* Phase 2 starts: the files to delete are collected.
CollectFiles ==
  /\ cl.pc = "phase1"
  /\ cl.todo = {}
  /\ cl' = [cl EXCEPT !.pc = "phase2",
                      !.todo = FilesToDelete(backend, assets, cl.blueprints, cl.world)]
  /\ UNCHANGED <<cleanRest, assets>>

\* Phase 2, one file: fs.removeSync / DeleteObject; a failure ends the
\* script.
DeleteAsset(f, resp) ==
  /\ cl.pc = "phase2"
  /\ f \in cl.todo
  /\ IF resp = "ok"
     THEN /\ assets' = [assets EXCEPT ![f] = NoObject]
          /\ cl' = [cl EXCEPT !.todo = @ \ {f}, !.removed = @ \cup {f}]
     ELSE /\ assets' = assets
          /\ cl' = [cl EXCEPT !.pc = "exited"]
  /\ UNCHANGED cleanRest

\* process.exit()
CleanExit ==
  /\ cl.pc = "phase2"
  /\ cl.todo = {}
  /\ cl' = [cl EXCEPT !.pc = "exited"]
  /\ UNCHANGED <<cleanRest, assets>>

CleanNext ==
  \/ \E b \in BlueprintRows, resp \in {"ok", "error"} : DeleteBlueprint(b, resp)
  \/ CollectFiles
  \/ \E f \in AssetNames, resp \in {"ok", "error"} : DeleteAsset(f, resp)
  \/ CleanExit

\* The blueprints of the world some entity uses, and the stored names a
\* blueprint refers to.
UsedBlueprints == {b \in cl.world.blueprints : b.id \in cl.world.entities}
NamedBy(b) == {u.name : u \in {v \in {b.model, b.script, b.image, b.prop} : v.scheme = "asset://"}}

\* C40: the cleanup scripts delete an asset only if its stem has 64
\* characters and no blueprint that survives the blueprint phase names it
\* (model, script, image, props), no user has it as avatar and it is not the
\* world's image, model or avatar; an asset named by a blueprint some entity
\* uses is never deleted, and such a blueprint is never deleted.
C40_CleanupSafe ==
  /\ \A f \in AssetNames :
       assets[f] # CleanFiles(backend)[f] =>
         /\ StemIsHash(Text(f))
         /\ \A b \in cl.table : f \notin NamedBy(b)
         /\ f \notin cl.world.avatars
         /\ \A u \in {cl.world.settings.image, cl.world.settings.model,
                      cl.world.settings.avatar} : u.name # f
  /\ \A b \in UsedBlueprints :
       /\ b \in cl.table
       /\ \A f \in NamedBy(b) : assets[f] = CleanFiles(backend)[f]

\* Both phases deleted something, and a hash-named file was kept only
\* because the props of a blueprint in use name it.
C40_Witness ==
  /\ cl.pc = "exited"
  /\ cl.removed # {}
  /\ cl.table # cl.world.blueprints
  /\ \E b \in UsedBlueprints :
       /\ b.prop.scheme = "asset://"
       /\ StemIsHash(Text(b.prop.name))
       /\ Present(assets[b.prop.name])
       /\ b.prop.name \notin cl.world.avatars
       /\ \A c \in cl.table \ {b} : b.prop.name \notin NamedBy(c)
       /\ \A u \in {cl.world.settings.image, cl.world.settings.model,
                    cl.world.settings.avatar} : u.name # b.prop.name

----------------------------------------------------------------------------
(* Specifications *)

InitLoaderOnly == LoaderInit /\ StoreIdle /\ KVIdle /\ NamesIdle /\ OpsIdle /\ CollIdle /\ BootIdle

SpecLoader == InitLoaderOnly /\ [][LoaderNext]_vars

InitStoreOnly == LoaderIdle /\ StoreInit /\ KVIdle /\ NamesIdle /\ OpsIdle /\ CollIdle /\ BootIdle

SpecStore == InitStoreOnly /\ [][StoreNext]_vars

InitKVOnly == LoaderIdle /\ StoreIdle /\ KVInit /\ NamesIdle /\ OpsIdle /\ CollIdle /\ BootIdle

SpecKV == InitKVOnly /\ [][KVNext]_vars

SpecKVLive == InitKVOnly /\ [][KVLiveNext]_vars /\ KVFairness

InitNamesOnly == LoaderIdle /\ StoreIdle /\ KVIdle /\ NamesIdle /\ OpsIdle /\ CollIdle /\ BootIdle

SpecNames == InitNamesOnly /\ [][NamesNext]_vars

InitOpsOnly ==
  LoaderIdle /\ OpsStoreInit /\ KVIdle /\ NamesIdle /\ OpsIdle /\ CollIdle /\ BootIdle

SpecOps == InitOpsOnly /\ [][OpsNext]_vars

InitCollOnly == LoaderIdle /\ KVIdle /\ NamesIdle /\ OpsIdle /\ CollInit /\ BootIdle

SpecColl == InitCollOnly /\ [][CollNext]_vars

SpecBoot == BootInit /\ [][BootNext]_vars

SpecShut == ShutInit /\ [][ShutNext]_vars

InitModelOnly == LoaderIdle /\ StoreIdle /\ KVIdle /\ NamesIdle /\ OpsIdle /\ CollIdle /\ BootIdle

SpecModel == InitModelOnly /\ [][ModelNext]_vars

SpecUrl == UrlInit /\ [][UrlNext]_vars

SpecUp == UpInit /\ [][UpNext]_vars

SpecClean == CleanInit /\ [][CleanNext]_vars

====
